---------------------------- MODULE Spec2Model ----------------------------
(***************************************************************************)
(* A model of the perp-folio position aggregator:                          *)
(*   - the in-memory TTL cache (utils/cache: getCached, clearCache...),    *)
(*   - the per-venue provider pipelines (fetch, filter, metadata, enrich), *)
(*   - the React hooks that fan out over providers and wallets.            *)
(* Strings whose characters matter (cache keys, numeric strings) are       *)
(* sequences of one-character strings.                                     *)
(***************************************************************************)
EXTENDS Integers, Sequences, FiniteSets, TLC

VARIABLES
    \* ---- utils/cache ----
    cache,      \* the module-level Map: key -> [data, expiresAt]
    now,        \* Date.now(), in abstract ticks
    pending,    \* getCached calls suspended at `await fetcher()`
    fetches,    \* fetcher promises that are in flight
    nCalls,     \* number of getCached calls made so far
    nFetches,   \* number of fetcher invocations made so far
    lastOp,     \* the last cache operation and what it returned
    cRejected,  \* the fetches that rejected
    cOutdated,  \* the fetches that were in flight when their key was removed
    \* ---- one provider.fetchPositions task, and the hook's normalization ----
    tProv,      \* the provider whose fetchPositions runs ("none" before)
    tPc,        \* where the task is: idle, fetching, metadata, done
    tCreds,     \* whether credentials were passed
    tHttp,      \* how the venue answered the position request
    tRaw,       \* the raw positions' size strings, as received
    tKept,      \* the positions left after the provider's filter
    tLookups,   \* the metadata lookups the task has started
    tResult,    \* none, resolved or rejected
    tNormalized, \* the size strings handed to normalizePosition
    \* ---- useDexPositions: one query per active provider ----
    aMounted,   \* whether the hook has been rendered with its options
    aOptions,   \* the options the hook was rendered with
    aQueries,   \* active provider -> the state of its query
    aRefetches, \* how many times refetch() has been called
    \* ---- one fetch of positions, from the venue's answer to the result ----
    nProv,      \* the provider ("none" before the fetch)
    nWallet,    \* the wallet the positions are fetched for
    nAnswer,    \* what the venue answered: accounts with raw positions
    nEnriched,  \* what provider.fetchPositions returned
    nOut,       \* the NormalizedPositions, in the same order
    \* ---- useAggregatedPortfolio ----
    pfMounted,  \* whether the hook has been rendered
    pfOptions,  \* the wallets and providers it was rendered with
    pfAccount,  \* active provider -> its account-summary query
    pfPositions, \* active provider -> its positions query
    \* ---- useHyperliquidPositionsWs / useLighterVolumeWs ----
    wMounted,   \* whether the component is mounted
    mountedRef, \* mountedRef.current
    wWallets,   \* the wallet list of the current render
    wsRef,      \* wsRef.current: a socket id, or 0 for null
    wSockets,   \* socket id -> [wallets, open, destroyed, call]
    wCalls,     \* connect() calls suspended at an await: id -> [wallets, pc]
    wGen,       \* how many connect() calls have been made
    walletData, \* the wallets that have an entry in the walletData state
    isConnected,
    isLoading,
    wError,     \* the error state: "null" or which error was set
    wStale,     \* whether a superseded connect() call has updated the state
    \* ---- utils/formatting ----
    fValue,     \* the string given to formatDecimals
    fDecimals,  \* the number of decimals asked for
    fResults,   \* the result, and the results of formatting it again
    dFn,        \* the formatting function that was called, or "none"
    dValue,     \* the string it was given
    dArg,       \* its decimals, precision or szDecimals
    dResult,    \* what it returned, or RangeError when it threw
    \* ---- hooks/useAggregatedPortfolio: loading flags ----
    ldMounted,          \* whether the hook is rendered
    ldOptions,          \* the options it is rendered with
    positionQueries,    \* the position queries, in the order of useQueries
    accountQueries,     \* the five account queries, in their fixed order
    hyperliquidWsLoading \* hyperliquidWs.isLoading

cacheVars == <<cache, now, pending, fetches, nCalls, nFetches, lastOp, cRejected, cOutdated>>

provVars == <<tProv, tPc, tCreds, tHttp, tRaw, tKept, tLookups, tResult, tNormalized>>

aggVars == <<aMounted, aOptions, aQueries, aRefetches>>

normVars == <<nProv, nWallet, nAnswer, nEnriched, nOut>>

folioVars == <<pfMounted, pfOptions, pfAccount, pfPositions>>

wsVars == <<wMounted, mountedRef, wWallets, wsRef, wSockets, wCalls, wGen,
           walletData, isConnected, isLoading, wError, wStale>>

fmtVars == <<fValue, fDecimals, fResults>>

decVars == <<dFn, dValue, dArg, dResult>>

loadVars == <<ldMounted, ldOptions, positionQueries, accountQueries, hyperliquidWsLoading>>

vars == <<cacheVars, provVars, aggVars, normVars, folioVars, wsVars, fmtVars, decVars,
          loadVars>>

\* What the actions of each part leave alone
notCacheVars == <<provVars, aggVars, normVars, folioVars, wsVars, fmtVars, decVars, loadVars>>
notProvVars == <<cacheVars, aggVars, normVars, folioVars, wsVars, fmtVars, decVars, loadVars>>
notAggVars == <<cacheVars, provVars, normVars, folioVars, wsVars, fmtVars, decVars, loadVars>>
notNormVars == <<cacheVars, provVars, aggVars, folioVars, wsVars, fmtVars, decVars, loadVars>>
notFolioVars == <<cacheVars, provVars, aggVars, normVars, wsVars, fmtVars, decVars, loadVars>>
notFmtVars == <<cacheVars, provVars, aggVars, normVars, folioVars, wsVars, decVars, loadVars>>
notDecVars == <<cacheVars, provVars, aggVars, normVars, folioVars, wsVars, fmtVars, loadVars>>
notWsVars == <<cacheVars, provVars, aggVars, normVars, folioVars, fmtVars, decVars, loadVars>>
notLoadVars == <<cacheVars, provVars, aggVars, normVars, folioVars, wsVars, fmtVars, decVars>>

-----------------------------------------------------------------------------
(* Bounds of the model *)

MaxTime == 2
MaxCalls == 2
MaxRaw == 2

-----------------------------------------------------------------------------
(* Strings *)

\* String.prototype.startsWith
StartsWith(s, p) == Len(p) <= Len(s) /\ SubSeq(s, 1, Len(p)) = p

COLON == <<":">>

-----------------------------------------------------------------------------
(* Cache keys and prefixes of the sources *)

Sources == {"hyperliquid", "lighter", "pacifica", "aster", "extended", "dydx"}

S_hl == <<"h","l">>
S_lighter == <<"l","i","g","h","t","e","r">>
S_pacifica == <<"p","a","c","i","f","i","c","a">>
S_aster == <<"a","s","t","e","r">>
S_extended == <<"e","x","t","e","n","d","e","d">>
S_dydx == <<"d","y","d","x">>
S_perpDexs == <<"p","e","r","p","D","e","x","s">>
S_meta == <<"m","e","t","a">>
S_main == <<"m","a","i","n">>
S_orderBooks == <<"o","r","d","e","r","B","o","o","k","s">>
S_markets == <<"m","a","r","k","e","t","s">>
S_exchangeInfo == <<"e","x","c","h","a","n","g","e","-","i","n","f","o">>

\* A plausible slip: the key is not namespaced by the prefix
generateCacheKeyNoPrefix(cachePrefix, suffix) == suffix

\* cachedFetch's key: `${config.cachePrefix}:${suffix}`
generateCacheKey(cachePrefix, suffix) == cachePrefix \o COLON \o suffix

\* The keys each source passes to getCached
KeysWrittenBy(src) ==
    CASE src = "hyperliquid" -> { S_hl \o COLON \o S_perpDexs,
                                  S_hl \o COLON \o S_meta \o COLON \o S_main }
      [] src = "lighter"     -> { S_lighter \o COLON \o S_orderBooks }
      [] src = "pacifica"    -> { S_pacifica \o COLON \o S_markets }
      [] src = "dydx"        -> { S_dydx \o COLON \o S_markets }
      [] src = "aster"       -> { generateCacheKey(S_aster, S_exchangeInfo) }
      [] src = "extended"    -> { generateCacheKey(S_extended, S_markets) }

\* The prefix each source's clear...Cache passes to clearCacheByPrefix
ClearPrefixOf(src) ==
    CASE src = "hyperliquid" -> S_hl \o COLON
      [] src = "lighter"     -> S_lighter \o COLON
      [] src = "pacifica"    -> S_pacifica \o COLON
      [] src = "dydx"        -> S_dydx \o COLON
      [] src = "aster"       -> S_aster
      [] src = "extended"    -> S_extended

Keys == UNION { KeysWrittenBy(src) : src \in Sources }

\* TTL of a key in ticks: CACHE_TTL (30 min) is TTL_LONG, the one-minute TTLs
\* of aster and extended are TTL_SHORT
TTL_LONG == 2
TTL_SHORT == 1

TtlOf(key) ==
    IF key \in KeysWrittenBy("aster") \cup KeysWrittenBy("extended")
    THEN TTL_SHORT ELSE TTL_LONG

-----------------------------------------------------------------------------
(* utils/cache *)

\* cache.set(key, entry)
MapSet(m, k, e) == [x \in (DOMAIN m) \cup {k} |-> IF x = k THEN e ELSE m[x]]

\* cache.delete over a set of keys
MapDelete(m, ks) == [x \in (DOMAIN m) \ ks |-> m[x]]

\* A plausible slip: an entry counts as fresh only well before its expiry
IsFreshOffByOne(m, key, t) == key \in DOMAIN m /\ m[key].expiresAt > t + 1

\* `entry && entry.expiresAt > now`
IsFresh(m, key, t) == key \in DOMAIN m /\ m[key].expiresAt > t

\* A plausible slip: the expiry is not moved by the TTL
NewEntryNoTtl(data, t, ttl) == [data |-> data, expiresAt |-> t]

\* `{ data, expiresAt: now + ttl }`
NewEntry(data, t, ttl) == [data |-> data, expiresAt |-> t + ttl]

\* getCached, cache hit: returns entry.data, fetcher is not invoked
GetCachedHit(key) ==
    /\ nCalls < MaxCalls
    /\ IsFresh(cache, key, now)
    /\ nCalls' = nCalls + 1
    /\ lastOp' = [op |-> "hit", key |-> key, call |-> nCalls + 1,
                  value |-> cache[key].data,
                  had |-> TRUE]
    /\ UNCHANGED <<cache, now, pending, fetches, nFetches>>
    /\ UNCHANGED <<cRejected, cOutdated>>
    /\ UNCHANGED notCacheVars

\* Single-flight, which the code does not have: a caller that misses while a
\* fetch for the key is in flight awaits that fetch instead of starting one
GetCachedMissSingleFlight(key) ==
    /\ nCalls < MaxCalls
    /\ ~IsFresh(cache, key, now)
    /\ nCalls' = nCalls + 1
    /\ IF \E f \in fetches : f.key = key
       THEN /\ UNCHANGED <<fetches, nFetches>>
            /\ pending' = pending \cup
                  {[call |-> nCalls + 1, key |-> key, now |-> now, ttl |-> TtlOf(key),
                    fid |-> (CHOOSE f \in fetches : f.key = key).fid]}
       ELSE /\ nFetches' = nFetches + 1
            /\ fetches' = fetches \cup {[fid |-> nFetches + 1, key |-> key]}
            /\ pending' = pending \cup
                  {[call |-> nCalls + 1, key |-> key, now |-> now, ttl |-> TtlOf(key),
                    fid |-> nFetches + 1]}
    /\ lastOp' = [op |-> "miss", key |-> key, call |-> nCalls + 1, value |-> 0,
                  had |-> key \in DOMAIN cache]
    /\ UNCHANGED <<cache, now>>
    /\ UNCHANGED <<cRejected, cOutdated>>
    /\ UNCHANGED notCacheVars

\* getCached, miss or expiry: `now` is read, then fetcher() is invoked and awaited
GetCachedMiss(key) ==
    /\ nCalls < MaxCalls
    /\ ~IsFresh(cache, key, now)
    /\ nCalls' = nCalls + 1
    /\ nFetches' = nFetches + 1
    /\ fetches' = fetches \cup {[fid |-> nFetches + 1, key |-> key]}
    /\ pending' = pending \cup
          {[call |-> nCalls + 1, key |-> key, now |-> now, ttl |-> TtlOf(key),
            fid |-> nFetches + 1]}
    /\ lastOp' = [op |-> "miss", key |-> key, call |-> nCalls + 1, value |-> 0,
                  had |-> key \in DOMAIN cache]
    /\ UNCHANGED <<cache, now>>
    /\ UNCHANGED <<cRejected, cOutdated>>
    /\ UNCHANGED notCacheVars

\* The awaited fetcher resolves (with a value that names the fetch):
\* cache.set(key, {data, expiresAt}), then return data
GetCachedResolve(c) ==
    /\ c \in pending
    /\ \E f \in fetches : f.fid = c.fid
    /\ cache' = MapSet(cache, c.key, NewEntry(c.fid, c.now, c.ttl))
    /\ pending' = pending \ {c}
    /\ fetches' = {f \in fetches : f.fid # c.fid}
    /\ lastOp' = [op |-> "stored", key |-> c.key, call |-> c.call, value |-> c.fid,
                  had |-> c.key \in DOMAIN cache]
    /\ UNCHANGED <<now, nCalls, nFetches>>
    /\ UNCHANGED <<cRejected, cOutdated>>
    /\ UNCHANGED notCacheVars

\* Negative caching, which the code does not have: the failed fetch leaves
\* an entry
GetCachedRejectStored(c) ==
    /\ c \in pending
    /\ \E f \in fetches : f.fid = c.fid
    /\ pending' = pending \ {c}
    /\ fetches' = {f \in fetches : f.fid # c.fid}
    /\ lastOp' = [op |-> "rejected", key |-> c.key, call |-> c.call, value |-> 0,
                  had |-> c.key \in DOMAIN cache]
    /\ cache' = MapSet(cache, c.key, NewEntry(c.fid, c.now, c.ttl))
    /\ UNCHANGED <<now, nCalls, nFetches>>
    /\ cRejected' = cRejected \cup {[fid |-> c.fid, key |-> c.key]}
    /\ UNCHANGED cOutdated
    /\ UNCHANGED notCacheVars

\* The awaited fetcher rejects: the rejection propagates, cache.set is not reached
GetCachedReject(c) ==
    /\ c \in pending
    /\ \E f \in fetches : f.fid = c.fid
    /\ pending' = pending \ {c}
    /\ fetches' = {f \in fetches : f.fid # c.fid}
    /\ lastOp' = [op |-> "rejected", key |-> c.key, call |-> c.call, value |-> 0,
                  had |-> c.key \in DOMAIN cache]
    /\ UNCHANGED <<cache, now, nCalls, nFetches>>
    /\ cRejected' = cRejected \cup {[fid |-> c.fid, key |-> c.key]}
    /\ UNCHANGED cOutdated
    /\ UNCHANGED notCacheVars

\* The fetches in flight for some of the keys
InFlightFor(keys) == {f.fid : f \in {g \in fetches : g.key \in keys}}

\* clearCache(key)
clearCache(key) ==
    /\ key \in DOMAIN cache
    /\ cache' = MapDelete(cache, {key})
    /\ lastOp' = [op |-> "clearCache", key |-> key, call |-> 0, value |-> 0,
                  had |-> TRUE]
    /\ UNCHANGED <<now, pending, fetches, nCalls, nFetches>>
    /\ cOutdated' = cOutdated \cup InFlightFor({key})
    /\ UNCHANGED cRejected
    /\ UNCHANGED notCacheVars

\* The keys clearCacheByPrefix(prefix) deletes
KeysWithPrefix(m, prefix) == {k \in DOMAIN m : StartsWith(k, prefix)}

\* clearCacheByPrefix(prefix), as called by each source's clear...Cache
clearCacheByPrefix(src) ==
    /\ DOMAIN cache # {}
    /\ cache' = MapDelete(cache, KeysWithPrefix(cache, ClearPrefixOf(src)))
    /\ lastOp' = [op |-> "clearCacheByPrefix", key |-> ClearPrefixOf(src), call |-> 0,
                  value |-> 0,
                  had |-> KeysWithPrefix(cache, ClearPrefixOf(src)) # {}]
    /\ UNCHANGED <<now, pending, fetches, nCalls, nFetches>>
    /\ cOutdated' = cOutdated \cup InFlightFor(KeysWithPrefix(cache, ClearPrefixOf(src)))
    /\ UNCHANGED cRejected
    /\ UNCHANGED notCacheVars

\* clearAllCache()
clearAllCache ==
    /\ cache' = << >>
    /\ DOMAIN cache # {}
    /\ lastOp' = [op |-> "clearAllCache", key |-> << >>, call |-> 0, value |-> 0,
                  had |-> TRUE]
    /\ UNCHANGED <<now, pending, fetches, nCalls, nFetches>>
    /\ cOutdated' = cOutdated \cup InFlightFor(DOMAIN cache)
    /\ UNCHANGED cRejected
    /\ UNCHANGED notCacheVars

\* Time passes
Tick ==
    /\ now < MaxTime
    /\ now' = now + 1
    /\ UNCHANGED <<cache, pending, fetches, nCalls, nFetches, lastOp>>
    /\ UNCHANGED <<cRejected, cOutdated>>
    /\ UNCHANGED notCacheVars

InitCache ==
    /\ cache = << >>
    /\ now = 0
    /\ pending = {}
    /\ fetches = {}
    /\ nCalls = 0
    /\ nFetches = 0
    /\ lastOp = [op |-> "none", key |-> << >>, call |-> 0, value |-> 0, had |-> FALSE]
    /\ cRejected = {}
    /\ cOutdated = {}

NextCache ==
    \/ \E key \in Keys : GetCachedHit(key)
    \/ \E key \in Keys : GetCachedMiss(key)
    \/ \E c \in pending : GetCachedResolve(c)
    \/ \E c \in pending : GetCachedReject(c)
    \/ \E key \in Keys : clearCache(key)
    \/ \E src \in Sources : clearCacheByPrefix(src)
    \/ clearAllCache
    \/ Tick

-----------------------------------------------------------------------------
(* Numeric strings *)

S_Infinity == <<"I","n","f","i","n","i","t","y">>

IsDigit(c) == c \in {"0","1","2","3","4","5","6","7","8","9"}

\* The number of consecutive digits of s from index i on
RECURSIVE DigitRun(_, _)
DigitRun(s, i) ==
    IF i <= Len(s) /\ IsDigit(s[i]) THEN 1 + DigitRun(s, i + 1) ELSE 0

\* parseFloat, as far as the sign, zero and finiteness of the result go: an
\* optional sign, then "Infinity" or the longest prefix digits[.digits];
\* NaN when there is no digit. (Exponents and leading blanks are not modelled.)
ParseFloat(s) ==
    LET sgn == IF Len(s) >= 1 /\ s[1] \in {"+", "-"} THEN 1 ELSE 0
        neg == sgn = 1 /\ s[1] = "-"
        i0 == sgn + 1
        n1 == DigitRun(s, i0)
        hasDot == i0 + n1 <= Len(s) /\ s[i0 + n1] = "."
        n2 == IF hasDot THEN DigitRun(s, i0 + n1 + 1) ELSE 0
        digits == SubSeq(s, i0, i0 + n1 - 1)
                    \o (IF hasDot THEN SubSeq(s, i0 + n1 + 1, i0 + n1 + n2) ELSE << >>)
    IN  IF StartsWith(SubSeq(s, i0, Len(s)), S_Infinity)
          THEN [kind |-> "inf", neg |-> neg, zero |-> FALSE]
        ELSE IF n1 + n2 = 0
          THEN [kind |-> "nan", neg |-> FALSE, zero |-> FALSE]
        ELSE [kind |-> "num", neg |-> neg,
              zero |-> \A k \in 1..Len(digits) : digits[k] = "0"]

\* positionCalc.isZeroPosition: numSize === 0 || !Number.isFinite(numSize)
isZeroPosition(size) ==
    LET numSize == ParseFloat(size)
    IN  (numSize.kind = "num" /\ numSize.zero) \/ numSize.kind # "num"

\* The legacy filter `parseFloat(p.position) !== 0`, true for NaN and Infinity
ParsesToNonZero(size) ==
    LET numSize == ParseFloat(size)
    IN  ~(numSize.kind = "num" /\ numSize.zero)

\* The size strings a venue may report
SizeStrings ==
    { <<"2">>, <<"-","2">>, <<"0">>, <<"0",".","0","0">>, <<"-","0">>,
      <<"a","b","c">>, <<"I","n","f","i","n","i","t","y">>, << >> }

RawLists == UNION { [1..n -> SizeStrings] : n \in 0..MaxRaw }

-----------------------------------------------------------------------------
(* JavaScript numbers: exact fractions n/d in lowest terms, NaN and the two  *)
(* infinities. Rounding to 53 bits and the sign of zero are not modelled.    *)

AbsInt(i) == IF i < 0 THEN -i ELSE i

SignInt(i) == IF i < 0 THEN -1 ELSE IF i = 0 THEN 0 ELSE 1

RECURSIVE Gcd(_, _)
Gcd(a, b) == IF b = 0 THEN a ELSE Gcd(b, a % b)

NaN == [k |-> "nan", n |-> 0, d |-> 1]

Inf(sign) == [k |-> "inf", n |-> sign, d |-> 1]

\* The number n/d, d # 0
Num(n, d) ==
    LET g == Gcd(AbsInt(n), AbsInt(d))
        sd == SignInt(d)
    IN  [k |-> "num", n |-> (sd * n) \div g, d |-> AbsInt(d) \div g]

IsFinite(a) == a.k = "num"

\* -1, 0, 1; 0 for NaN too
SignOf(a) == IF a.k = "nan" THEN 0 ELSE SignInt(a.n)

\* a > b, a <= b, a === b: all false when an operand is NaN
JsGt(a, b) ==
    CASE a.k = "nan" \/ b.k = "nan" -> FALSE
      [] a.k = "inf" /\ b.k = "inf" -> a.n > b.n
      [] a.k = "inf" -> a.n > 0
      [] b.k = "inf" -> b.n < 0
      [] OTHER -> a.n * b.d > b.n * a.d

JsEq(a, b) == a.k # "nan" /\ b.k # "nan" /\ a = b

JsLe(a, b) == a.k # "nan" /\ b.k # "nan" /\ ~JsGt(a, b)

JsAbs(a) == IF a.k = "nan" THEN NaN ELSE [a EXCEPT !.n = AbsInt(a.n)]

JsNeg(a) == IF a.k = "nan" THEN NaN ELSE [a EXCEPT !.n = -a.n]

JsMul(a, b) ==
    CASE a.k = "nan" \/ b.k = "nan" -> NaN
      [] a.k = "inf" \/ b.k = "inf" ->
            IF SignOf(a) * SignOf(b) = 0 THEN NaN ELSE Inf(SignOf(a) * SignOf(b))
      [] OTHER -> Num(a.n * b.n, a.d * b.d)

JsDiv(a, b) ==
    CASE a.k = "nan" \/ b.k = "nan" -> NaN
      [] a.k = "inf" /\ b.k = "inf" -> NaN
      [] a.k = "inf" -> Inf(IF SignOf(b) < 0 THEN -a.n ELSE a.n)
      [] b.k = "inf" -> Num(0, 1)
      [] b.n = 0 -> IF a.n = 0 THEN NaN ELSE Inf(SignOf(a))
      [] OTHER -> Num(a.n * b.d, a.d * b.n)

JsAdd(a, b) ==
    CASE a.k = "nan" \/ b.k = "nan" -> NaN
      [] a.k = "inf" /\ b.k = "inf" -> IF a.n = b.n THEN a ELSE NaN
      [] a.k = "inf" -> a
      [] b.k = "inf" -> b
      [] OTHER -> Num(a.n * b.d + b.n * a.d, a.d * b.d)

JsSub(a, b) == JsAdd(a, JsNeg(b))

ZERO == Num(0, 1)
ONE == Num(1, 1)
HUNDRED == Num(100, 1)

-----------------------------------------------------------------------------
(* Strings and numbers in a position *)

RECURSIVE Pow10(_)
Pow10(e) == IF e = 0 THEN 1 ELSE 10 * Pow10(e - 1)

DigitValue(c) ==
    CASE c = "0" -> 0 [] c = "1" -> 1 [] c = "2" -> 2 [] c = "3" -> 3 [] c = "4" -> 4
      [] c = "5" -> 5 [] c = "6" -> 6 [] c = "7" -> 7 [] c = "8" -> 8 [] c = "9" -> 9

\* The value of a run of digits read as a decimal integer
RECURSIVE DigitsValue(_)
DigitsValue(ds) ==
    IF ds = << >> THEN 0
    ELSE 10 * DigitsValue(SubSeq(ds, 1, Len(ds) - 1)) + DigitValue(ds[Len(ds)])

\* parseFloat with its value: the sign, then "Infinity" or the longest prefix
\* digits[.digits]; NaN when there is no digit
parseFloat(s) ==
    LET sgn == IF Len(s) >= 1 /\ s[1] \in {"+", "-"} THEN 1 ELSE 0
        sign == IF sgn = 1 /\ s[1] = "-" THEN -1 ELSE 1
        i0 == sgn + 1
        n1 == DigitRun(s, i0)
        hasDot == i0 + n1 <= Len(s) /\ s[i0 + n1] = "."
        n2 == IF hasDot THEN DigitRun(s, i0 + n1 + 1) ELSE 0
        digits == SubSeq(s, i0, i0 + n1 - 1)
                    \o (IF hasDot THEN SubSeq(s, i0 + n1 + 1, i0 + n1 + n2) ELSE << >>)
    IN  IF StartsWith(SubSeq(s, i0, Len(s)), S_Infinity) THEN Inf(sign)
        ELSE IF n1 + n2 = 0 THEN NaN
        ELSE Num(sign * DigitsValue(digits), Pow10(n2))

\* A field of a position: null, a string taken verbatim from the venue, or a
\* number rendered with toString()
NULL == [t |-> "null"]
Verbatim(s) == [t |-> "str", s |-> s]
Rendered(v) == [t |-> "num", v |-> v]

\* What a consumer gets when it parses a field: parseFloat of a verbatim
\* string; for a rendered number the number itself, as toString() followed by
\* parseFloat gives back NaN, the infinities and every finite value
FieldValue(f) ==
    CASE f.t = "str" -> parseFloat(f.s)
      [] f.t = "num" -> f.v
      [] OTHER -> NaN

\* JavaScript truthiness of a string-or-null field
Truthy(f) == f.t = "str" /\ f.s # << >>

\* positionCalc.calculateMargin, pacifica/utils.calculateMarginUsed
calculateMargin(isolated, apiMargin, positionValue, leverage) ==
    IF isolated /\ JsGt(apiMargin, ZERO) THEN apiMargin
    ELSE IF JsLe(leverage, ZERO) THEN ZERO
    ELSE JsDiv(positionValue, leverage)

\* positionCalc.calculateRoi: a number, or NULL
calculateRoi(pnl, margin) ==
    IF JsEq(margin, ZERO) THEN NULL
    ELSE Rendered(JsMul(JsDiv(pnl, margin), HUNDRED))

\* positionCalc.calculatePnl, calculatePositionValue
calculatePnl(side, entryPrice, markPrice, size) ==
    IF side = "long" THEN JsMul(JsSub(markPrice, entryPrice), JsAbs(size))
    ELSE JsMul(JsSub(entryPrice, markPrice), JsAbs(size))

calculatePositionValue(size, price) == JsMul(JsAbs(size), price)

\* pacifica/utils.calculateRoi
pacificaCalculateRoi(side, entryPrice, markPrice, amount, leverage, isolated, apiMargin) ==
    IF JsLe(markPrice, ZERO) \/ JsEq(amount, ZERO) THEN NULL
    ELSE LET pnl == calculatePnl(side, entryPrice, markPrice, amount)
             positionValue == calculatePositionValue(amount, markPrice)
             marginUsed == calculateMargin(isolated, apiMargin, positionValue, leverage)
         IN  IF JsEq(marginUsed, ZERO) THEN NULL
             ELSE Rendered(JsMul(JsDiv(pnl, marginUsed), HUNDRED))

\* calculateLiquidationPrice with the short's denominator for both sides
calculateLiquidationPriceOneDenominator(side, size, entryPrice, availableEquity, mmf) ==
    IF JsEq(size, ZERO) \/ JsLe(availableEquity, ZERO) THEN NULL
    ELSE LET denominator == JsMul(size, JsAdd(ONE, mmf))
             liquidationPrice ==
                 IF side = "LONG"
                 THEN JsDiv(JsSub(JsMul(entryPrice, size), availableEquity), denominator)
                 ELSE JsDiv(JsAdd(availableEquity, JsMul(entryPrice, size)), denominator)
         IN  IF JsEq(denominator, ZERO) THEN NULL
             ELSE IF JsLe(liquidationPrice, ZERO) THEN NULL
             ELSE Rendered(liquidationPrice)

\* dydx/normalizer.calculateLiquidationPrice: a rendered number, or NULL
calculateLiquidationPrice(side, size, entryPrice, availableEquity, mmf) ==
    IF JsEq(size, ZERO) \/ JsLe(availableEquity, ZERO) THEN NULL
    ELSE LET denominator ==
                 IF side = "LONG" THEN JsMul(size, JsSub(ONE, mmf))
                 ELSE JsMul(size, JsAdd(ONE, mmf))
             liquidationPrice ==
                 IF side = "LONG"
                 THEN JsDiv(JsSub(JsMul(entryPrice, size), availableEquity), denominator)
                 ELSE JsDiv(JsAdd(availableEquity, JsMul(entryPrice, size)), denominator)
         IN  IF JsEq(denominator, ZERO) THEN NULL
             ELSE IF JsLe(liquidationPrice, ZERO) THEN NULL
             ELSE Rendered(liquidationPrice)

-----------------------------------------------------------------------------
(* The providers' normalizePosition. A raw position is a record of the      *)
(* venue's fields (strings, as the venue sends them) and of the fields the   *)
(* provider's fetchPositions added to it.                                    *)

\* Number(v): like parseFloat, but the whole string must be the number, and
\* the empty string is 0
NumberOf(s) ==
    LET sgn == IF Len(s) >= 1 /\ s[1] \in {"+", "-"} THEN 1 ELSE 0
        n1 == DigitRun(s, sgn + 1)
        hasDot == sgn + n1 + 1 <= Len(s) /\ s[sgn + n1 + 1] = "."
        n2 == IF hasDot THEN DigitRun(s, sgn + n1 + 2) ELSE 0
        used == sgn + n1 + (IF hasDot THEN 1 + n2 ELSE 0)
    IN  IF s = << >> THEN ZERO
        ELSE IF SubSeq(s, sgn + 1, Len(s)) = S_Infinity THEN parseFloat(s)
        ELSE IF used = Len(s) THEN parseFloat(s)
        ELSE NaN

\* lighter/normalizer: toNum and toStr
toNum(s) == LET n == NumberOf(s) IN IF IsFinite(n) THEN n ELSE ZERO
toStr(n) == IF IsFinite(n) THEN Rendered(n) ELSE Rendered(ZERO)

\* positionCalc.getSideFromSignedSize
getSideFromSignedSize(signedSize) ==
    IF JsGt(signedSize, ZERO) \/ JsEq(signedSize, ZERO) THEN "long" ELSE "short"

hyperliquidNormalize(raw, wallet) ==
    LET size == parseFloat(raw.size) IN
    [id |-> <<"hyperliquid", wallet, raw.symbol>>,
     provider |-> "hyperliquid",
     wallet |-> wallet,
     symbol |-> raw.symbol,
     side |-> getSideFromSignedSize(size),
     size |-> Rendered(JsAbs(size)),
     liquidationPrice |-> raw.liq,
     margin |-> Verbatim(raw.margin),
     roi |-> Rendered(JsMul(parseFloat(raw.roe), HUNDRED))]

lighterLegacyNormalize(raw, wallet) ==
    LET margin == parseFloat(raw.margin)
        unrealizedPnl == parseFloat(raw.pnl)
    IN
    [id |-> <<"lighter", wallet, raw.symbol>>,
     provider |-> "lighter",
     wallet |-> wallet,
     symbol |-> raw.symbol,
     side |-> IF raw.side = "LONG" THEN "long" ELSE "short",
     size |-> Verbatim(raw.size),
     liquidationPrice |-> raw.liq,
     margin |-> Verbatim(raw.margin),
     roi |-> IF JsGt(margin, ZERO)
             THEN Rendered(JsMul(JsDiv(unrealizedPnl, margin), HUNDRED))
             ELSE NULL]

lighterNormalize(raw, wallet) ==
    LET imfPct == toNum(raw.imf)
        absSize == JsAbs(toNum(raw.size))
        mark == IF raw.mark # NULL THEN toNum(raw.mark.s) ELSE ZERO
        posValueAbs == JsAbs(toNum(raw.notional))
        allocatedMargin == toNum(raw.margin)
        margin ==
            IF JsGt(allocatedMargin, ZERO) THEN allocatedMargin
            ELSE IF JsGt(mark, ZERO) /\ JsGt(imfPct, ZERO)
              THEN JsMul(JsMul(absSize, mark), JsDiv(imfPct, HUNDRED))
            ELSE IF JsGt(posValueAbs, ZERO) /\ JsGt(imfPct, ZERO)
              THEN JsMul(posValueAbs, JsDiv(imfPct, HUNDRED))
            ELSE ZERO
        unrealizedPnl == toNum(raw.pnl)
        accountKey == IF "_accountIndex" \in DOMAIN raw THEN raw._accountIndex ELSE "na"
    IN
    [id |-> <<"lighter", wallet, accountKey, raw.symbol>>,
     provider |-> "lighter",
     wallet |-> wallet,
     symbol |-> raw.symbol,
     side |-> IF raw.side = "LONG" THEN "long" ELSE "short",
     size |-> Verbatim(raw.size),
     liquidationPrice |-> raw.liq,
     margin |-> toStr(margin),
     roi |-> IF JsGt(margin, ZERO)
             THEN toStr(JsMul(JsDiv(unrealizedPnl, margin), HUNDRED))
             ELSE NULL]

\* utils/chains.normalizeSide, on the sides a venue sends
normalizeSide(side) == IF side \in {"SHORT", "sell", "ask"} THEN "short" ELSE "long"

pacificaNormalize(raw, wallet) ==
    LET side == normalizeSide(raw.side)
        amount == parseFloat(raw.size)
        entryPrice == parseFloat(raw.entry)
        apiMargin == parseFloat(raw.margin)
        leverage == parseFloat(raw.leverage)
        priceForMargin == IF Truthy(raw.mark) THEN parseFloat(raw.mark.s) ELSE entryPrice
        positionValue == calculatePositionValue(amount, priceForMargin)
        marginUsed == calculateMargin(raw.isolated, apiMargin, positionValue, leverage)
    IN
    [id |-> <<"pacifica", wallet, raw.symbol>>,
     provider |-> "pacifica",
     wallet |-> wallet,
     symbol |-> raw.symbol,
     side |-> side,
     size |-> Verbatim(raw.size),
     liquidationPrice |-> raw.liq,
     margin |-> Rendered(marginUsed),
     roi |-> IF Truthy(raw.mark)
             THEN pacificaCalculateRoi(side, entryPrice, parseFloat(raw.mark.s), amount,
                                       leverage, raw.isolated, apiMargin)
             ELSE NULL]

asterNormalize(raw, wallet) ==
    LET size == parseFloat(raw.size)
        unrealizedPnl == parseFloat(raw.pnl)
        leverage == parseFloat(raw.leverage)
        notional == JsAbs(parseFloat(raw.notional))
        margin == IF raw.isolated THEN parseFloat(raw.margin) ELSE JsDiv(notional, leverage)
    IN
    [id |-> <<"aster", wallet, raw.symbol>>,
     provider |-> "aster",
     wallet |-> wallet,
     symbol |-> raw.symbol,
     side |-> getSideFromSignedSize(size),
     size |-> Rendered(JsAbs(size)),
     liquidationPrice |-> IF Truthy(raw.liq) THEN Rendered(parseFloat(raw.liq.s)) ELSE NULL,
     margin |-> Rendered(margin),
     roi |-> calculateRoi(unrealizedPnl, margin)]

extendedNormalize(raw, wallet) ==
    LET size == parseFloat(raw.size)
        unrealizedPnl == parseFloat(raw.pnl)
        margin == parseFloat(raw.margin)
    IN
    [id |-> <<"extended", wallet, raw.symbol>>,
     provider |-> "extended",
     wallet |-> wallet,
     symbol |-> raw.symbol,
     side |-> IF raw.side = "LONG" THEN "long" ELSE "short",
     size |-> Rendered(size),
     liquidationPrice |-> IF Truthy(raw.liq) THEN Rendered(parseFloat(raw.liq.s)) ELSE NULL,
     margin |-> Rendered(margin),
     roi |-> calculateRoi(unrealizedPnl, margin)]

\* A JavaScript number used as a condition: false for 0 and NaN
TruthyNumber(a) == a.k # "nan" /\ ~JsEq(a, ZERO)

\* dydx normalizePosition's positionMargin: the position's share, by
\* notional, of the account's margin in use
dydxPositionMargin(raw) ==
    LET absSize == JsAbs(parseFloat(raw.size))
        entryPrice == parseFloat(raw.entry)
        hasMark == Truthy(raw.mark) /\ TruthyNumber(parseFloat(raw.mark.s))
        notional == IF hasMark THEN JsMul(absSize, parseFloat(raw.mark.s))
                    ELSE JsMul(absSize, entryPrice)
        shared == JsGt(raw._totalNotional, ZERO) /\ JsGt(raw._totalMarginUsed, ZERO)
    IN  IF shared THEN JsMul(JsDiv(notional, raw._totalNotional), raw._totalMarginUsed)
        ELSE ZERO

dydxNormalize(raw, wallet) ==
    LET absSize == JsAbs(parseFloat(raw.size))
        entryPrice == parseFloat(raw.entry)
        unrealizedPnl == parseFloat(raw.pnl)
        positionMargin == dydxPositionMargin(raw)
        availableEquity == JsSub(raw._accountEquity, raw._otherPositionsMaintenanceMargin)
    IN
    [id |-> <<"dydx", wallet, raw.symbol>>,
     provider |-> "dydx",
     wallet |-> wallet,
     symbol |-> raw.symbol,
     side |-> IF raw.side = "LONG" THEN "long" ELSE "short",
     size |-> Rendered(absSize),
     liquidationPrice |->
         IF JsGt(availableEquity, ZERO)
         THEN calculateLiquidationPrice(raw.side, absSize, entryPrice, availableEquity,
                                        raw._maintenanceMarginFraction)
         ELSE NULL,
     margin |-> IF JsGt(positionMargin, ZERO) THEN Rendered(positionMargin)
                ELSE Rendered(raw._accountEquity),
     roi |-> IF JsGt(positionMargin, ZERO)
             THEN Rendered(JsMul(JsDiv(unrealizedPnl, positionMargin), HUNDRED))
             ELSE Verbatim(<<"0">>)]

\* provider.normalizePosition
normalizePosition(p, raw, wallet) ==
    CASE p = "hyperliquid" -> hyperliquidNormalize(raw, wallet)
      [] p = "lighter" -> lighterNormalize(raw, wallet)
      [] p = "lighter_legacy" -> lighterLegacyNormalize(raw, wallet)
      [] p = "pacifica" -> pacificaNormalize(raw, wallet)
      [] p = "aster" -> asterNormalize(raw, wallet)
      [] p = "extended" -> extendedNormalize(raw, wallet)
      [] p = "dydx" -> dydxNormalize(raw, wallet)

-----------------------------------------------------------------------------
(* The providers' fetchPositions *)

\* lighter is lighter/index.ts's provider with credentials support,
\* lighter_legacy the provider defined first in the same file
Providers ==
    {"hyperliquid", "lighter", "lighter_legacy", "pacifica", "dydx", "aster", "extended"}

HttpOutcomes == {"ok", "notFound", "unauthorized", "serverError", "networkError"}

\* aster, extended: requiresCredentials
RequiresCredentials(p) == p \in {"aster", "extended"}

\* Whether the api-level position fetch rejects for an answer of the venue.
\*   hyperliquid: !response.ok returns an empty state, and .catch() turns a
\*                thrown fetch into an empty state as well
\*   lighter, pacifica, dydx: !response.ok returns empty; a thrown fetch is
\*                not caught
\*   aster, extended: !res.ok throws
RawFetchRejects(p, http) ==
    CASE p = "hyperliquid" -> FALSE
      [] p \in {"lighter", "lighter_legacy", "pacifica", "dydx"} -> http = "networkError"
      [] p \in {"aster", "extended"} -> http # "ok"

\* What the api-level position fetch returns when it does not reject
RawFetchReturns(p, http, raw) == IF http = "ok" THEN raw ELSE << >>

\* The provider's filter over the raw positions
\*   pacifica filters nothing: it only tests positions.length === 0
FilterRaw(p, raw) ==
    CASE p = "pacifica" -> raw
      [] p = "lighter_legacy" -> SelectSeq(raw, ParsesToNonZero)
      [] OTHER -> LET NonZero(x) == ~isZeroPosition(x) IN SelectSeq(raw, NonZero)

\* The metadata lookups (cache reads and network fetches) a provider makes
MetaLookupsOf(p) ==
    CASE p = "hyperliquid" -> {"dexList", "decimals", "markPrices"}
      [] p \in {"lighter", "lighter_legacy"} -> {"decimals", "markPrices"}
      [] p = "pacifica" -> {"leverageSettings", "decimals", "markPrices", "maxLeverage"}
      [] p = "dydx" -> {"decimals", "markPrices", "marginFractions"}
      [] p = "aster" -> {"decimals"}
      [] p = "extended" -> {"decimals", "maxLeverage"}

\* dydx starts buildMetadata() in the same Promise.all as fetchPositions
MetadataWithPositions(p) == p = "dydx"

\* hyperliquid's fetchClearinghouseState first awaits getDexNames()
LookupsBeforePositions(p) ==
    CASE p = "hyperliquid" -> {"dexList"}
      [] MetadataWithPositions(p) -> MetaLookupsOf(p)
      [] OTHER -> {}

\* The task ends: the promise settles, and on success the hook maps
\* provider.normalizePosition over what fetchPositions returned
Settle(result, out) ==
    /\ tPc' = "done"
    /\ tResult' = result
    /\ tNormalized' = out

\* provider.fetchPositions(address, credentials) is called
StartTask(p, creds) ==
    /\ tPc = "idle"
    /\ tProv' = p
    /\ tCreds' = creds
    /\ IF RequiresCredentials(p) /\ ~creds
       THEN \* `if (!creds?.apiKey ...) return []`
            /\ Settle("resolved", << >>)
            /\ UNCHANGED <<tLookups>>
       ELSE /\ tPc' = "fetching"
            /\ tLookups' = LookupsBeforePositions(p)
            /\ UNCHANGED <<tResult, tNormalized>>
    /\ UNCHANGED <<tHttp, tRaw, tKept>>
    /\ UNCHANGED notProvVars

\* The venue answers the position request
RawFetchSettles(http, raw) ==
    /\ tPc = "fetching"
    /\ tHttp' = http
    /\ UNCHANGED <<tProv, tCreds>>
    /\ IF RawFetchRejects(tProv, http)
       THEN /\ Settle("rejected", << >>)
            /\ UNCHANGED <<tRaw, tKept, tLookups>>
       ELSE LET got == RawFetchReturns(tProv, http, raw)
                kept == FilterRaw(tProv, got)
            IN  /\ tRaw' = got
                /\ IF MetadataWithPositions(tProv)
                   THEN \* the Promise.all still awaits the metadata
                        /\ tKept' = << >>
                        /\ tPc' = "metadata"
                        /\ UNCHANGED <<tLookups, tResult, tNormalized>>
                   ELSE /\ tKept' = kept
                        /\ IF kept = << >>
                           THEN /\ Settle("resolved", << >>)
                                /\ UNCHANGED tLookups
                           ELSE /\ tPc' = "metadata"
                                /\ tLookups' = tLookups \cup MetaLookupsOf(tProv)
                                /\ UNCHANGED <<tResult, tNormalized>>
    /\ UNCHANGED notProvVars

\* The metadata arrives: the positions are enriched and returned
MetadataResolves ==
    /\ tPc = "metadata"
    /\ LET kept == IF MetadataWithPositions(tProv) THEN FilterRaw(tProv, tRaw) ELSE tKept
       IN  /\ tKept' = kept
           /\ Settle("resolved", kept)
    /\ UNCHANGED <<tProv, tCreds, tHttp, tRaw, tLookups>>
    /\ UNCHANGED notProvVars

\* The cached market metadata cannot be fetched: its fetcher throws
MetadataRejects ==
    /\ tPc = "metadata"
    /\ Settle("rejected", << >>)
    /\ UNCHANGED <<tProv, tCreds, tHttp, tRaw, tKept, tLookups>>
    /\ UNCHANGED notProvVars

InitProv ==
    /\ tProv = "none"
    /\ tPc = "idle"
    /\ tCreds = FALSE
    /\ tHttp = "none"
    /\ tRaw = << >>
    /\ tKept = << >>
    /\ tLookups = {}
    /\ tResult = "none"
    /\ tNormalized = << >>

NextProv ==
    \/ \E p \in Providers, creds \in BOOLEAN : StartTask(p, creds)
    \/ \E http \in HttpOutcomes, raw \in RawLists : RawFetchSettles(http, raw)
    \/ MetadataResolves
    \/ MetadataRejects

-----------------------------------------------------------------------------
(* hooks/useDexPositions: one React Query query per active provider; a      *)
(* wallet-based provider's query awaits Promise.all over its wallets.       *)

\* The retry option the hook is rendered with, and how often refetch() is
\* called
MaxRetry == 1
MaxRefetch == 1

\* The providers of the registry that the model follows
allProviderIds == {"hyperliquid", "pacifica", "aster", "extended"}

ChainOf(p) == IF p = "pacifica" THEN "solana" ELSE "evm"

EvmWallets == {"e1", "e2"}
SolanaWallets == {"s1"}

\* The asterCredentials.apiKey that stands for the wallet of a credential query
ApiKeyId == "k1"

\* The options the hook can be rendered with
OptionSets ==
    [evm : SUBSET EvmWallets,
     solana : SUBSET SolanaWallets,
     providers : SUBSET allProviderIds,
     asterCredentials : BOOLEAN]

\* activeProviders: a credential-based provider stays only if it is aster and
\* asterCredentials is defined; a wallet-based one only if its chain has
\* wallets
activeProviders(o) ==
    {id \in o.providers :
        IF RequiresCredentials(id)
        THEN id = "aster" /\ o.asterCredentials
        ELSE IF ChainOf(id) = "evm" THEN o.evm # {} ELSE o.solana # {}}

\* The accounts one provider's queryFn fetches
relevantWallets(id, o) ==
    IF RequiresCredentials(id) THEN {ApiKeyId}
    ELSE IF ChainOf(id) = "evm" THEN o.evm ELSE o.solana

\* What a venue holds for an account, once normalized with its wallet
VenueSymbols == {"BTC"}
PositionsAt(id, w) ==
    {[provider |-> id, wallet |-> w, symbol |-> sym] : sym \in VenueSymbols}

FailedStates == {"failed", "unauthorized"}

AllRunning(wallets) == [w \in wallets |-> "running"]

\* A query as React Query creates it on mount: fetching, no data, no error
NewQuery(id, o) ==
    [tasks |-> AllRunning(relevantWallets(id, o)),
     fetching |-> TRUE,
     failureCount |-> 0,
     hasData |-> FALSE,
     data |-> {},
     error |-> FALSE]

\* The hook is rendered: useQueries creates one query per active provider
Mount(o) ==
    /\ ~aMounted
    /\ aMounted' = TRUE
    /\ aOptions' = o
    /\ aQueries' = [id \in activeProviders(o) |-> NewQuery(id, o)]
    /\ UNCHANGED aRefetches
    /\ UNCHANGED notAggVars

\* Promise.all resolves once every wallet's fetch has resolved: the query
\* succeeds with all the wallets' positions
QueryAfterResolve(id, q, w) ==
    LET tasks2 == [q.tasks EXCEPT ![w] = "ok"] IN
    IF q.fetching /\ \A v \in DOMAIN tasks2 : tasks2[v] = "ok"
    THEN [tasks |-> tasks2,
          fetching |-> FALSE,
          failureCount |-> 0,
          hasData |-> TRUE,
          data |-> UNION {PositionsAt(id, v) : v \in DOMAIN tasks2},
          error |-> FALSE]
    ELSE [q EXCEPT !.tasks = tasks2]

\* provider.fetchPositions(wallet) resolves for one wallet of one query
TaskResolves(id, w) ==
    /\ aMounted
    /\ id \in DOMAIN aQueries
    /\ w \in DOMAIN aQueries[id].tasks
    /\ aQueries[id].tasks[w] = "running"
    /\ aQueries' = [aQueries EXCEPT ![id] = QueryAfterResolve(id, @, w)]
    /\ UNCHANGED <<aMounted, aOptions, aRefetches>>
    /\ UNCHANGED notAggVars

\* Promise.all rejects as soon as one wallet's fetch rejects, whatever the
\* other wallets did: React Query retries the whole queryFn while
\* failureCount < retry, and then puts the query in error, keeping old data
QueryAfterReject(q, w, why) ==
    LET tasks2 == [q.tasks EXCEPT ![w] = why] IN
    IF ~q.fetching THEN [q EXCEPT !.tasks = tasks2]
    ELSE IF q.failureCount < MaxRetry
    THEN [q EXCEPT !.tasks = AllRunning(DOMAIN q.tasks),
                   !.failureCount = @ + 1]
    ELSE [q EXCEPT !.tasks = tasks2,
                   !.fetching = FALSE,
                   !.failureCount = @ + 1,
                   !.error = TRUE]

\* provider.fetchPositions rejects for one wallet of one query; only a
\* credential-based provider's request can be refused for its credentials
TaskRejects(id, w, why) ==
    /\ aMounted
    /\ id \in DOMAIN aQueries
    /\ w \in DOMAIN aQueries[id].tasks
    /\ aQueries[id].tasks[w] = "running"
    /\ why = "unauthorized" => RequiresCredentials(id)
    /\ aQueries' = [aQueries EXCEPT ![id] = QueryAfterReject(@, w, why)]
    /\ UNCHANGED <<aMounted, aOptions, aRefetches>>
    /\ UNCHANGED notAggVars

\* refetch(): every query runs its queryFn again; a query without data goes
\* back to pending and drops its error, one with data keeps both meanwhile
QueryAfterRefetch(q) ==
    [q EXCEPT !.tasks = AllRunning(DOMAIN q.tasks),
              !.fetching = TRUE,
              !.failureCount = 0,
              !.error = IF q.hasData THEN @ ELSE FALSE]

refetch ==
    /\ aMounted
    /\ aRefetches < MaxRefetch
    /\ \A id \in DOMAIN aQueries : ~aQueries[id].fetching
    /\ aRefetches' = aRefetches + 1
    /\ aQueries' = [id \in DOMAIN aQueries |-> QueryAfterRefetch(aQueries[id])]
    /\ UNCHANGED <<aMounted, aOptions>>
    /\ UNCHANGED notAggVars

\* The hook's result: positions of every query that has data, and one error
\* record per query in error, tagged with the query's provider
positions ==
    UNION {aQueries[id].data : id \in {i \in DOMAIN aQueries : aQueries[i].hasData}}

errors ==
    {[provider |-> id] : id \in {i \in DOMAIN aQueries : aQueries[i].error}}

InitAgg ==
    /\ aMounted = FALSE
    /\ aOptions = [evm |-> {}, solana |-> {}, providers |-> {},
                   asterCredentials |-> FALSE]
    /\ aQueries = << >>
    /\ aRefetches = 0

NextAgg ==
    \/ \E o \in OptionSets : Mount(o)
    \/ \E id \in allProviderIds, w \in EvmWallets \cup SolanaWallets \cup {ApiKeyId} :
          TaskResolves(id, w)
    \/ \E id \in allProviderIds, w \in EvmWallets \cup SolanaWallets \cup {ApiKeyId},
          why \in FailedStates :
          TaskRejects(id, w, why)
    \/ refetch

-----------------------------------------------------------------------------
(* One fetch: the venue's answer goes through provider.fetchPositions        *)
(* (flatten, filter, enrich) and the hook maps normalizePosition over it.    *)

NormWallets == {"w1", "w2"}

\* A raw position as a venue reports it, with the market data the provider
\* looks up for its symbol
DefaultRaw ==
    [symbol |-> "BTC", size |-> <<"2">>, side |-> "LONG", liq |-> Verbatim(<<"3">>),
     isolated |-> FALSE, margin |-> <<"5">>, leverage |-> <<"4">>,
     notional |-> <<"2","4">>, pnl |-> <<"6">>, entry |-> <<"1","0">>,
     mark |-> Verbatim(<<"1","2">>), roe |-> <<"0",".","5">>, imf |-> <<"5">>,
     mmf |-> Num(1, 10)]

\* The liquidation prices a venue may report
LiqFields == {NULL, Verbatim(<< >>), Verbatim(<<"0">>), Verbatim(<<"-","1">>), Verbatim(<<"3">>)}

\* Answers with one position whose size and liquidation price vary
SignAnswers ==
    {[accounts |-> << <<[DefaultRaw EXCEPT !.size = sz, !.liq = lq]>> >>,
      equity |-> <<"3","0">>, freeCollateral |-> <<"4">>] :
        sz \in SizeStrings, lq \in LiqFields}

\* The positions of one (sub-)account: at most one per instrument
AccountPositions ==
    { << >>, <<DefaultRaw>>, <<[DefaultRaw EXCEPT !.symbol = "ETH"]>>,
      <<DefaultRaw, [DefaultRaw EXCEPT !.symbol = "ETH"]>> }

\* Answers with one or two (sub-)accounts
AccountAnswers ==
    {[accounts |-> accs, equity |-> <<"3","0">>, freeCollateral |-> <<"4">>] :
        accs \in {<<a>> : a \in AccountPositions}
                   \cup {<<a, b>> : a \in AccountPositions, b \in AccountPositions}}

\* Answers with one position whose margin data vary
MarginAnswers ==
    {[accounts |-> << <<[DefaultRaw EXCEPT !.isolated = iso, !.margin = mg,
                                           !.leverage = lev, !.mark = mk]>> >>,
      equity |-> <<"3","0">>, freeCollateral |-> fc] :
        iso \in BOOLEAN, mg \in {<<"0">>, <<"5">>}, lev \in {<<"0">>, <<"4">>},
        mk \in {NULL, Verbatim(<<"1","2">>)}, fc \in {<<"4">>, <<"3","0">>}}

\* Answers whose account equity, side and maintenance fraction vary
EquityAnswers ==
    {[accounts |-> << <<[DefaultRaw EXCEPT !.side = sd, !.mmf = mmf]>> \o others >>,
      equity |-> eq, freeCollateral |-> <<"4">>] :
        sd \in {"LONG", "SHORT"}, mmf \in {Num(1, 10), Num(1, 1)},
        eq \in {<<"0">>, <<"4">>, <<"3","0">>},
        others \in {<< >>, <<[DefaultRaw EXCEPT !.symbol = "ETH"]>>}}

VenueAnswers == SignAnswers \cup AccountAnswers \cup MarginAnswers \cup EquityAnswers

\* Only lighter reports sub-accounts
AnswersFor(p) ==
    IF p \in {"lighter", "lighter_legacy"} THEN VenueAnswers
    ELSE {a \in VenueAnswers : Len(a.accounts) = 1}

\* accountData.accounts.flatMap((account) => account.positions)
RECURSIVE FlatPositions(_)
FlatPositions(accounts) ==
    IF accounts = << >> THEN << >>
    ELSE Head(accounts) \o FlatPositions(Tail(accounts))

\* The provider's filter, on a raw position
KeepsRaw(p, raw) == FilterRaw(p, <<raw.size>>) # << >>

\* dydx: the notional and the maintenance margin of a position
dydxNotional(pos) ==
    JsMul(JsAbs(parseFloat(pos.size)),
          IF Truthy(pos.mark) THEN parseFloat(pos.mark.s) ELSE parseFloat(pos.entry))

dydxMaintenance(pos) == JsMul(dydxNotional(pos), pos.mmf)

RECURSIVE SumOver(_, _)
SumOver(numbers, i) ==
    IF i > Len(numbers) THEN ZERO ELSE JsAdd(numbers[i], SumOver(numbers, i + 1))

\* dydxProvider.fetchPositions, after the filter: every position gets the
\* account's equity, the maintenance margin of the other positions and the
\* totals (the markets of one subaccount are distinct)
dydxEnrich(kept, answer) ==
    LET accountEquity == parseFloat(answer.equity)
        freeCollateral == parseFloat(answer.freeCollateral)
        totalMarginUsed == JsSub(accountEquity, freeCollateral)
        totalMaintenanceRequired ==
            SumOver([i \in 1..Len(kept) |-> dydxMaintenance(kept[i])], 1)
        totalNotional == SumOver([i \in 1..Len(kept) |-> dydxNotional(kept[i])], 1)
    IN  [i \in 1..Len(kept) |->
            [symbol |-> kept[i].symbol, size |-> kept[i].size, side |-> kept[i].side,
             entry |-> kept[i].entry, pnl |-> kept[i].pnl, mark |-> kept[i].mark,
             _maintenanceMarginFraction |-> kept[i].mmf,
             _accountEquity |-> accountEquity,
             _otherPositionsMaintenanceMargin |->
                 JsSub(totalMaintenanceRequired, dydxMaintenance(kept[i])),
             _totalMarginUsed |-> totalMarginUsed,
             _totalNotional |-> totalNotional]]

\* provider.fetchPositions on the venue's answer
EnrichedPositions(p, answer) ==
    LET Keep(raw) == KeepsRaw(p, raw)
        kept == SelectSeq(FlatPositions(answer.accounts), Keep)
    IN  IF p = "dydx" THEN dydxEnrich(kept, answer) ELSE kept

\* The hook's queryFn for one wallet: fetch, then map normalizePosition
FetchAndNormalize(p, wallet, answer) ==
    /\ nProv = "none"
    /\ nProv' = p
    /\ nWallet' = wallet
    /\ nAnswer' = answer
    /\ LET enriched == EnrichedPositions(p, answer) IN
          /\ nEnriched' = enriched
          /\ nOut' = [i \in 1..Len(enriched) |-> normalizePosition(p, enriched[i], wallet)]
    /\ UNCHANGED notNormVars

InitNorm ==
    /\ nProv = "none"
    /\ nWallet = "none"
    /\ nAnswer = [accounts |-> << >>, equity |-> << >>, freeCollateral |-> << >>]
    /\ nEnriched = << >>
    /\ nOut = << >>

NextNorm ==
    \E p \in Providers, wallet \in NormWallets :
        \E answer \in AnswersFor(p) : FetchAndNormalize(p, wallet, answer)

-----------------------------------------------------------------------------
(* hooks/useAggregatedPortfolio: account summaries and positions per         *)
(* provider, summed into one snapshot with a per-provider breakdown.         *)

\* The providers of the breakdown that the model follows, and aster, which
\* can be asked for but is skipped
FolioProviders == {"hyperliquid", "pacifica", "aster"}

FolioOptionSets ==
    [evm : SUBSET EvmWallets, solana : SUBSET SolanaWallets,
     providers : SUBSET FolioProviders]

\* activeProviders of useAggregatedPortfolio: aster never, the others when
\* their chain has wallets
folioActiveProviders(o) ==
    {id \in o.providers :
        /\ id # "aster"
        /\ IF ChainOf(id) = "evm" THEN o.evm # {} ELSE o.solana # {}}

folioWallets(id, o) == IF ChainOf(id) = "evm" THEN o.evm ELSE o.solana

\* What the venue can do for one wallet's account request: fail, or report
\* an account value
AccountValues == {Num(-1, 1), ZERO, Num(2, 1)}
FAILED == [k |-> "failed", n |-> 0, d |-> 1]
WalletOutcomes == {FAILED} \cup AccountValues

\* fetch...AccountSummary: every wallet's requests run inside try/catch, a
\* failure counts as 0, and the wallets' values are summed
RECURSIVE SumBalances(_, _)
SumBalances(outcomes, wallets) ==
    IF wallets = {} THEN ZERO
    ELSE LET w == CHOOSE x \in wallets : TRUE
             value == IF outcomes[w] = FAILED THEN ZERO ELSE outcomes[w]
         IN  JsAdd(value, SumBalances(outcomes, wallets \ {w}))

fetchAccountSummary(outcomes) ==
    [accountBalance |-> SumBalances(outcomes, DOMAIN outcomes)]

\* The sizeUsd strings of the positions a provider's positions query returns;
\* a wallet whose fetch fails contributes none (catch { return []; })
PositionOutcomes ==
    {[failed |-> TRUE, sizeUsd |-> << >>]}
    \cup {[failed |-> FALSE, sizeUsd |-> l] :
             l \in {<< >>, <<Verbatim(<<"-","6">>), Verbatim(<<"3">>)>>}}

fetchedPositions(outcome) == IF outcome.failed THEN << >> ELSE outcome.sizeUsd

\* A query that has not settled: its data is undefined
PendingAccountQuery ==
    [settled |-> FALSE, failed |-> FALSE, data |-> [accountBalance |-> ZERO]]

PendingPositionsQuery == [settled |-> FALSE, failed |-> FALSE, data |-> << >>]

MountPortfolio(o) ==
    /\ ~pfMounted
    /\ pfMounted' = TRUE
    /\ pfOptions' = o
    /\ pfAccount' = [id \in folioActiveProviders(o) |-> PendingAccountQuery]
    /\ pfPositions' = [id \in folioActiveProviders(o) |-> PendingPositionsQuery]
    /\ UNCHANGED notFolioVars

\* A provider's account-summary query settles: it always resolves
AccountSummarySettles(id, outcomes) ==
    /\ pfMounted
    /\ id \in DOMAIN pfAccount
    /\ ~pfAccount[id].settled
    /\ DOMAIN outcomes = folioWallets(id, pfOptions)
    /\ pfAccount' = [pfAccount EXCEPT ![id] =
                        [settled |-> TRUE,
                         failed |-> \E w \in DOMAIN outcomes : outcomes[w] = FAILED,
                         data |-> fetchAccountSummary(outcomes)]]
    /\ UNCHANGED <<pfMounted, pfOptions, pfPositions>>
    /\ UNCHANGED notFolioVars

\* A provider's positions query settles: it always resolves
PositionsSettle(id, outcome) ==
    /\ pfMounted
    /\ id \in DOMAIN pfPositions
    /\ ~pfPositions[id].settled
    /\ pfPositions' = [pfPositions EXCEPT ![id] =
                          [settled |-> TRUE,
                           failed |-> outcome.failed,
                           data |-> fetchedPositions(outcome)]]
    /\ UNCHANGED <<pfMounted, pfOptions, pfAccount>>
    /\ UNCHANGED notFolioVars

\* Math.abs(parseFloat(pos.sizeUsd)), summed over a provider's positions
SizeUsdOf(sizeUsd) ==
    SumOver([i \in 1..Len(sizeUsd) |-> JsAbs(parseFloat(sizeUsd[i].s))], 1)

\* perDexPositionStats[id].sizeUsd: q.data?.positions ?? []
perDexSizeUsd(id) ==
    IF pfPositions[id].settled THEN SizeUsdOf(pfPositions[id].data) ELSE ZERO

\* summary?.accountBalance ?? 0
summaryBalance(id) ==
    IF pfAccount[id].settled THEN pfAccount[id].data.accountBalance ELSE ZERO

RECURSIVE SumProviders(_, _)
SumProviders(Value(_), ids) ==
    IF ids = {} THEN ZERO
    ELSE LET id == CHOOSE x \in ids : TRUE
         IN  JsAdd(Value(id), SumProviders(Value, ids \ {id}))

\* Composite leverage = total size USD / total equity
compositeLeverageWhenNotZero(totalSizeUsd, totalAccountBalance) ==
    IF ~JsEq(totalAccountBalance, ZERO) THEN JsDiv(totalSizeUsd, totalAccountBalance)
    ELSE ZERO

compositeLeverage(totalSizeUsd, totalAccountBalance) ==
    IF JsGt(totalAccountBalance, ZERO) THEN JsDiv(totalSizeUsd, totalAccountBalance)
    ELSE ZERO

\* One entry of the per-provider breakdown: hyperliquid tests
\* `data !== null`, true also while data is undefined; the others test the
\* summary for truthiness and give null without it
perDexEntry(id) ==
    IF id = "hyperliquid" \/ pfAccount[id].settled
    THEN [t |-> "value", accountBalance |-> summaryBalance(id), sizeUsd |-> perDexSizeUsd(id)]
    ELSE [t |-> "null", accountBalance |-> ZERO, sizeUsd |-> ZERO]

\* Whether the hook's data is not null: some query has data
hasData ==
    \E id \in DOMAIN pfAccount : pfAccount[id].settled \/ pfPositions[id].settled

\* The hook's data, when it is not null
data ==
    LET totalSizeUsd == SumProviders(perDexSizeUsd, DOMAIN pfPositions)
        totalAccountBalance == SumProviders(summaryBalance, DOMAIN pfAccount)
    IN  [totalAccountBalance |-> totalAccountBalance,
         totalSizeUsd |-> totalSizeUsd,
         compositeLeverage |-> compositeLeverage(totalSizeUsd, totalAccountBalance),
         perDex |-> [id \in DOMAIN pfAccount |-> perDexEntry(id)]]

InitFolio ==
    /\ pfMounted = FALSE
    /\ pfOptions = [evm |-> {}, solana |-> {}, providers |-> {}]
    /\ pfAccount = << >>
    /\ pfPositions = << >>

NextFolio ==
    \/ \E o \in FolioOptionSets : MountPortfolio(o)
    \/ \E id \in FolioProviders, ws \in SUBSET (EvmWallets \cup SolanaWallets) :
          \E outcomes \in [ws -> WalletOutcomes] : AccountSummarySettles(id, outcomes)
    \/ \E id \in FolioProviders, outcome \in PositionOutcomes : PositionsSettle(id, outcome)

-----------------------------------------------------------------------------
(* hooks/useHyperliquidPositionsWs (useLighterVolumeWs has the same          *)
(* connect, disconnect, reconnect and effect).                               *)

\* How many connect() calls a behaviour makes
MaxConnects == 2

WsWalletLists == SUBSET EvmWallets

\* disconnect(): destroy the socket wsRef points to, if any
SocketsAfterDisconnect ==
    IF wsRef = 0 THEN wSockets ELSE [wSockets EXCEPT ![wsRef].destroyed = TRUE]

\* connect(), up to its first await: with no wallets (or not enabled, which
\* connect treats alike) it only clears isLoading; otherwise it sets isLoading, clears the error and awaits
\* buildAssetDataMap()
CallsAfterConnect(wallets) ==
    IF wallets = {} THEN wCalls
    ELSE [id \in DOMAIN wCalls \cup {wGen + 1} |->
             IF id = wGen + 1 THEN [wallets |-> wallets, pc |-> "meta"] ELSE wCalls[id]]

\* The effect runs: mountedRef.current = true; connect()
RunEffect(wallets) ==
    /\ mountedRef' = TRUE
    /\ wWallets' = wallets
    /\ wCalls' = CallsAfterConnect(wallets)
    /\ wGen' = wGen + 1
    /\ isLoading' = (wallets # {})
    /\ wError' = IF wallets = {} THEN wError ELSE "null"

\* The component mounts
WsMount(wallets) ==
    /\ ~wMounted
    /\ wGen = 0
    /\ wMounted' = TRUE
    /\ RunEffect(wallets)
    /\ UNCHANGED <<wsRef, wSockets, walletData, isConnected, wStale>>
    /\ UNCHANGED notWsVars

\* The wallet list changes: the effect's cleanup runs (mountedRef.current =
\* false; disconnect()), then the effect runs again
WsWalletsChange(wallets) ==
    /\ wMounted
    /\ wallets # wWallets
    /\ wGen < MaxConnects
    /\ wSockets' = SocketsAfterDisconnect
    /\ wsRef' = 0
    /\ isConnected' = FALSE
    /\ RunEffect(wallets)
    /\ UNCHANGED <<wMounted, walletData, wStale>>
    /\ UNCHANGED notWsVars

\* reconnect(): disconnect(); connect()
reconnect ==
    /\ wMounted
    /\ wGen < MaxConnects
    /\ wSockets' = SocketsAfterDisconnect
    /\ wsRef' = 0
    /\ isConnected' = FALSE
    /\ wCalls' = CallsAfterConnect(wWallets)
    /\ wGen' = wGen + 1
    /\ isLoading' = (wWallets # {})
    /\ wError' = IF wWallets = {} THEN wError ELSE "null"
    /\ UNCHANGED <<wMounted, mountedRef, wWallets, walletData, wStale>>
    /\ UNCHANGED notWsVars

\* The component unmounts: the effect's cleanup runs
WsUnmount ==
    /\ wMounted
    /\ wMounted' = FALSE
    /\ mountedRef' = FALSE
    /\ wSockets' = SocketsAfterDisconnect
    /\ wsRef' = 0
    /\ isConnected' = FALSE
    /\ UNCHANGED <<wWallets, wCalls, wGen, walletData, isLoading, wError, wStale>>
    /\ UNCHANGED notWsVars

\* A connect() call or a socket that a later connect() call has superseded
Superseded(id) == id # wGen

\* A state setter called by connect() call id takes effect while the
\* component is mounted
Consumes(id) == wStale' = (wStale \/ (wMounted /\ Superseded(id)))

CallsWithout(id) == [c \in DOMAIN wCalls \ {id} |-> wCalls[c]]

\* buildAssetDataMap() resolves: connect returns if mountedRef.current is
\* false, and otherwise awaits the import of the socket library
MetaResolves(id) ==
    /\ id \in DOMAIN wCalls
    /\ wCalls[id].pc = "meta"
    /\ wCalls' = IF mountedRef THEN [wCalls EXCEPT ![id].pc = "import"]
                              ELSE CallsWithout(id)
    /\ UNCHANGED <<wMounted, mountedRef, wWallets, wsRef, wSockets, wGen,
                   walletData, isConnected, isLoading, wError, wStale>>
    /\ UNCHANGED notWsVars

\* buildAssetDataMap() rejects: the outer catch sets the error unless
\* mountedRef.current is false
MetaRejects(id) ==
    /\ id \in DOMAIN wCalls
    /\ wCalls[id].pc = "meta"
    /\ wCalls' = CallsWithout(id)
    /\ IF mountedRef /\ wMounted
       THEN /\ wError' = "Failed to connect"
            /\ isLoading' = FALSE
            /\ Consumes(id)
       ELSE UNCHANGED <<wError, isLoading, wStale>>
    /\ UNCHANGED <<wMounted, mountedRef, wWallets, wsRef, wSockets, wGen,
                   walletData, isConnected>>
    /\ UNCHANGED notWsVars

\* The import resolves: connect creates the socket and stores it in wsRef,
\* whatever wsRef held and whatever mountedRef.current is
ImportResolves(id) ==
    /\ id \in DOMAIN wCalls
    /\ wCalls[id].pc = "import"
    /\ wCalls' = CallsWithout(id)
    /\ wSockets' = [k \in DOMAIN wSockets \cup {id} |->
                       IF k = id
                       THEN [wallets |-> wCalls[id].wallets, open |-> FALSE,
                             destroyed |-> FALSE]
                       ELSE wSockets[k]]
    /\ wsRef' = id
    /\ UNCHANGED <<wMounted, mountedRef, wWallets, wGen, walletData,
                   isConnected, isLoading, wError, wStale>>
    /\ UNCHANGED notWsVars

\* The import rejects: the inner catch sets the error without reading
\* mountedRef
ImportRejects(id) ==
    /\ id \in DOMAIN wCalls
    /\ wCalls[id].pc = "import"
    /\ wCalls' = CallsWithout(id)
    /\ IF wMounted
       THEN /\ wError' = "not installed"
            /\ isLoading' = FALSE
            /\ Consumes(id)
       ELSE UNCHANGED <<wError, isLoading, wStale>>
    /\ UNCHANGED <<wMounted, mountedRef, wWallets, wsRef, wSockets, wGen,
                   walletData, isConnected>>
    /\ UNCHANGED notWsVars

\* A socket that has not been destroyed delivers its events
Live(id) == id \in DOMAIN wSockets /\ ~wSockets[id].destroyed

\* 'open': subscribes the socket to its wallets and sets isConnected
SocketOpen(id) ==
    /\ Live(id)
    /\ ~wSockets[id].open
    /\ wSockets' = [wSockets EXCEPT ![id].open = TRUE]
    /\ IF mountedRef /\ wMounted
       THEN /\ isConnected' = TRUE
            /\ Consumes(id)
       ELSE UNCHANGED <<isConnected, wStale>>
    /\ UNCHANGED <<wMounted, mountedRef, wWallets, wsRef, wCalls, wGen,
                   walletData, isLoading, wError>>
    /\ UNCHANGED notWsVars

\* 'message' for a subscribed wallet: stores the wallet's positions
SocketMessage(id, user) ==
    /\ Live(id)
    /\ wSockets[id].open
    /\ user \in wSockets[id].wallets
    /\ IF mountedRef /\ wMounted
       THEN /\ walletData' = walletData \cup {user}
            /\ isLoading' = FALSE
            /\ Consumes(id)
       ELSE UNCHANGED <<walletData, isLoading, wStale>>
    /\ UNCHANGED <<wMounted, mountedRef, wWallets, wsRef, wSockets, wCalls,
                   wGen, isConnected, wError>>
    /\ UNCHANGED notWsVars

\* 'close'
SocketClose(id) ==
    /\ Live(id)
    /\ wSockets[id].open
    /\ wSockets' = [wSockets EXCEPT ![id].open = FALSE]
    /\ IF mountedRef /\ wMounted
       THEN /\ isConnected' = FALSE
            /\ Consumes(id)
       ELSE UNCHANGED <<isConnected, wStale>>
    /\ UNCHANGED <<wMounted, mountedRef, wWallets, wsRef, wCalls, wGen,
                   walletData, isLoading, wError>>
    /\ UNCHANGED notWsVars

\* 'error'
SocketError(id) ==
    /\ Live(id)
    /\ IF mountedRef /\ wMounted
       THEN /\ wError' = "socket error"
            /\ isLoading' = FALSE
            /\ Consumes(id)
       ELSE UNCHANGED <<wError, isLoading, wStale>>
    /\ UNCHANGED <<wMounted, mountedRef, wWallets, wsRef, wSockets, wCalls,
                   wGen, walletData, isConnected>>
    /\ UNCHANGED notWsVars

InitWs ==
    /\ wMounted = FALSE
    /\ mountedRef = TRUE
    /\ wWallets = {}
    /\ wsRef = 0
    /\ wSockets = <<>>
    /\ wCalls = <<>>
    /\ wGen = 0
    /\ walletData = {}
    /\ isConnected = FALSE
    /\ isLoading = TRUE
    /\ wError = "null"
    /\ wStale = FALSE

NextWs ==
    \/ \E wallets \in WsWalletLists : WsMount(wallets)
    \/ \E wallets \in WsWalletLists : WsWalletsChange(wallets)
    \/ reconnect
    \/ WsUnmount
    \/ \E id \in 1..MaxConnects : MetaResolves(id)
    \/ \E id \in 1..MaxConnects : MetaRejects(id)
    \/ \E id \in 1..MaxConnects : ImportResolves(id)
    \/ \E id \in 1..MaxConnects : ImportRejects(id)
    \/ \E id \in 1..MaxConnects : SocketOpen(id)
    \/ \E id \in 1..MaxConnects, user \in EvmWallets : SocketMessage(id, user)
    \/ \E id \in 1..MaxConnects : SocketClose(id)
    \/ \E id \in 1..MaxConnects : SocketError(id)

-----------------------------------------------------------------------------
(* utils/formatting: truncation of a decimal string, on the string itself *)

\* The longest strings and the most decimals tried, and how many times a
\* result is formatted again
FmtMaxLen == 5
FmtMaxDecimals == 2
FmtMaxApplications == 2

FmtChars == {"-", ".", "0", "1"}

FmtStrings == UNION {[1..n -> FmtChars] : n \in 0..FmtMaxLen}

\* The number of consecutive "0" of s from index i on
RECURSIVE ZeroRun(_, _)
ZeroRun(s, i) ==
    IF i <= Len(s) /\ s[i] = "0" THEN 1 + ZeroRun(s, i + 1) ELSE 0

Min(a, b) == IF a < b THEN a ELSE b

\* /^(-?)0+(?=\d)/ -> '$1': removes the leading zeros that a digit follows
StripLeadingZeros(value) ==
    LET sign == IF Len(value) >= 1 /\ value[1] = "-" THEN 1 ELSE 0
        zeros == ZeroRun(value, sign + 1)
        removed == IF zeros = 0 THEN 0
                   ELSE IF sign + zeros + 1 <= Len(value) /\ IsDigit(value[sign + zeros + 1])
                        THEN zeros
                        ELSE zeros - 1
    IN  SubSeq(value, 1, sign) \o SubSeq(value, sign + removed + 1, Len(value))

\* Whether /\.0*$|(\.\d+?)0+$/ matches s from index i: a "." with only zeros
\* up to the end, or with digits that end with a zero
TrailingZerosAt(s, i) ==
    /\ s[i] = "."
    /\ \/ ZeroRun(s, i + 1) = Len(s) - i
       \/ /\ DigitRun(s, i + 1) = Len(s) - i
          /\ s[Len(s)] = "0"

\* /\.0*$|(\.\d+?)0+$/ -> '$1', at the leftmost match: removes a "." that only
\* zeros follow, or the zeros after the last other digit
StripTrailingZeros(s) ==
    LET starts == {i \in 1..Len(s) : TrailingZerosAt(s, i)}
    IN  IF starts = {} THEN s
        ELSE LET i == CHOOSE k \in starts : \A j \in starts : k <= j
             IN  IF ZeroRun(s, i + 1) = Len(s) - i THEN SubSeq(s, 1, i - 1)
                 ELSE SubSeq(s, 1, CHOOSE k \in (i + 1)..Len(s) :
                                       /\ s[k] # "0"
                                       /\ \A j \in (k + 1)..Len(s) : s[j] = "0")

\* /^(-?)\./ -> '$10.': puts a zero before a leading "."
AddLeadingZero(s) ==
    LET sign == IF Len(s) >= 1 /\ s[1] = "-" THEN 1 ELSE 0
    IN  IF Len(s) > sign /\ s[sign + 1] = "."
        THEN SubSeq(s, 1, sign) \o <<"0">> \o SubSeq(s, sign + 1, Len(s))
        ELSE s

\* /^-?$/ -> '0', then /^-0$/ -> '0'
ZeroForEmpty(s) == IF s \in {<< >>, <<"-">>} THEN <<"0">> ELSE s

ZeroForMinusZero(s) == IF s = <<"-", "0">> THEN <<"0">> ELSE s

\* formatDecimalString; the strings it is given hold no white space, so
\* trim() returns them unchanged
formatDecimalString(value) ==
    ZeroForMinusZero(ZeroForEmpty(AddLeadingZero(StripTrailingZeros(StripLeadingZeros(value)))))

\* toFixedTruncate whose match always stops before the last digit after the
\* "."
toFixedTruncateBeforeLast(value, decimals) ==
    IF decimals < 0 THEN value
    ELSE LET sign == IF Len(value) >= 1 /\ value[1] = "-" THEN 1 ELSE 0
             int == DigitRun(value, sign + 1)
             dot == sign + int + 1
             frac == IF dot <= Len(value) /\ value[dot] = "."
                     THEN 1 + Min(decimals, DigitRun(value, dot + 2))
                     ELSE 0
             result == SubSeq(value, 1, sign + int + frac)
         IN  IF result = << >> THEN value ELSE formatDecimalString(result)

\* toFixedTruncate: the match of /^-?(?:\d+)?(?:\.\d{0,decimals})?/, cleaned
\* by formatDecimalString; the value itself when the match is empty
toFixedTruncate(value, decimals) ==
    IF decimals < 0 THEN value
    ELSE LET sign == IF Len(value) >= 1 /\ value[1] = "-" THEN 1 ELSE 0
             int == DigitRun(value, sign + 1)
             dot == sign + int + 1
             frac == IF dot <= Len(value) /\ value[dot] = "."
                     THEN 1 + Min(decimals, DigitRun(value, dot + 1))
                     ELSE 0
             result == SubSeq(value, 1, sign + int + frac)
         IN  IF result = << >> THEN value ELSE formatDecimalString(result)

formatDecimals(value, decimals) == toFixedTruncate(value, decimals)

\* A caller formats a string
FormatDecimals(value, decimals) ==
    /\ fResults = << >>
    /\ fValue' = value
    /\ fDecimals' = decimals
    /\ fResults' = <<formatDecimals(value, decimals)>>
    /\ UNCHANGED notFmtVars

\* A caller formats the last result again, with the same decimals
FormatAgain ==
    /\ fResults # << >>
    /\ Len(fResults) < FmtMaxApplications
    /\ fResults' = Append(fResults, formatDecimals(fResults[Len(fResults)], fDecimals))
    /\ UNCHANGED <<fValue, fDecimals>>
    /\ UNCHANGED notFmtVars

InitFmt ==
    /\ fValue = << >>
    /\ fDecimals = 0
    /\ fResults = << >>

NextFmt ==
    \/ \E value \in FmtStrings, decimals \in 0..FmtMaxDecimals :
          FormatDecimals(value, decimals)
    \/ FormatAgain

-----------------------------------------------------------------------------
(* utils/formatting: significant figures and formatPrice *)

\* The index of the first "." of s from index i on, or 0
RECURSIVE IndexOfDot(_, _)
IndexOfDot(s, i) ==
    IF i > Len(s) THEN 0
    ELSE IF s[i] = "." THEN i
    ELSE IndexOfDot(s, i + 1)

\* s.split('.'): the first part, whether there is a second, and the second
SplitInt(s) == IF IndexOfDot(s, 1) = 0 THEN s ELSE SubSeq(s, 1, IndexOfDot(s, 1) - 1)

HasDec(s) == IndexOfDot(s, 1) # 0

SplitDec(s) ==
    LET d1 == IndexOfDot(s, 1)
        d2 == IndexOfDot(s, d1 + 1)
    IN  IF d1 = 0 THEN << >>
        ELSE IF d2 = 0 THEN SubSeq(s, d1 + 1, Len(s))
        ELSE SubSeq(s, d1 + 1, d2 - 1)

Zeros(n) == [i \in 1..n |-> "0"]

WithoutSign(value) ==
    IF Len(value) >= 1 /\ value[1] = "-" THEN SubSeq(value, 2, Len(value)) ELSE value

\* log10Floor: the position of the most significant digit, -Infinity for a
\* string that Number() reads as 0 or NaN
log10Floor(value) ==
    LET abs == WithoutSign(value)
        num == NumberOf(abs)
        int == SplitInt(abs)
    IN  IF num.k = "nan" \/ JsEq(num, ZERO) THEN Inf(-1)
        ELSE IF ~(NumberOf(int).k # "nan" /\ JsEq(NumberOf(int), ZERO))
             THEN Num(Len(int) - ZeroRun(int, 1) - 1, 1)
        ELSE Num(-((IF HasDec(abs) THEN ZeroRun(SplitDec(abs), 1) ELSE 0) + 1), 1)

\* What a call that throws leaves instead of a result
RangeError == <<"RangeError">>

\* multiplyByPow10: moves the "." by exp places; '0'.repeat(count) throws
\* for an infinite count
multiplyByPow10(value, exp) ==
    IF JsEq(exp, ZERO) THEN formatDecimalString(value)
    ELSE LET neg == Len(value) >= 1 /\ value[1] = "-"
             abs == WithoutSign(value)
             intRaw == SplitInt(abs)
             dec == SplitDec(abs)
             int == IF intRaw = << >> THEN <<"0">> ELSE intRaw
             sign == IF neg THEN <<"-">> ELSE << >>
         IN  IF exp.k = "inf" THEN RangeError
             ELSE IF exp.n > 0
             THEN IF exp.n >= Len(dec)
                  THEN formatDecimalString(sign \o int \o dec \o Zeros(exp.n - Len(dec)))
                  ELSE formatDecimalString(sign \o int \o SubSeq(dec, 1, exp.n) \o <<".">>
                                           \o SubSeq(dec, exp.n + 1, Len(dec)))
             ELSE IF -exp.n >= Len(int)
                  THEN formatDecimalString(sign \o <<"0", ".">> \o Zeros(-exp.n - Len(int))
                                           \o int \o dec)
                  ELSE formatDecimalString(sign \o SubSeq(int, 1, Len(int) + exp.n) \o <<".">>
                                           \o SubSeq(int, Len(int) + exp.n + 1, Len(int))
                                           \o dec)

\* trunc: the part before the first ".", "0" when it is empty
trunc(value) ==
    LET dotIndex == IndexOfDot(value, 1)
    IN  IF dotIndex = 0 THEN value
        ELSE IF dotIndex = 1 THEN <<"0">>
        ELSE SubSeq(value, 1, dotIndex - 1)

\* /^-?0+(\.0*)?$/
IsZeroString(value) ==
    LET sign == IF Len(value) >= 1 /\ value[1] = "-" THEN 1 ELSE 0
        zeros == ZeroRun(value, sign + 1)
        dot == sign + zeros + 1
    IN  /\ zeros >= 1
        /\ \/ sign + zeros = Len(value)
           \/ /\ value[dot] = "."
              /\ ZeroRun(value, dot + 1) = Len(value) - dot

\* toPrecisionTruncate: shift the "." behind the last significant digit,
\* drop the decimals, shift back
toPrecisionTruncate(value, precision) ==
    IF precision < 1 THEN value
    ELSE IF IsZeroString(value) THEN <<"0">>
    ELSE LET neg == Len(value) >= 1 /\ value[1] = "-"
             abs == WithoutSign(value)
             magnitude == log10Floor(abs)
             shiftAmount == JsSub(JsSub(Num(precision, 1), magnitude), ONE)
             shifted == multiplyByPow10(abs, shiftAmount)
         IN  IF shifted = RangeError THEN RangeError
             ELSE LET result == multiplyByPow10(trunc(shifted), JsNeg(shiftAmount))
                  IN  formatDecimalString((IF neg THEN <<"-">> ELSE << >>) \o result)

\* /^-?\d+$/
IsIntegerString(s) ==
    LET sign == IF Len(s) >= 1 /\ s[1] = "-" THEN 1 ELSE 0
    IN  DigitRun(s, sign + 1) >= 1 /\ sign + DigitRun(s, sign + 1) = Len(s)

\* formatPrice; the strings it is given hold no white space, so trim()
\* returns them unchanged
formatPrice(price, szDecimals) ==
    IF IsIntegerString(price) THEN formatDecimalString(price)
    ELSE LET maxDecimals == IF 6 - szDecimals > 0 THEN 6 - szDecimals ELSE 0
         IN  toPrecisionTruncate(toFixedTruncate(price, maxDecimals), 5)

\* The prices tried: an optional "-", up to PriceMaxInt digits, and
\* optionally "." and up to PriceMaxFrac digits; the price of the
\* documentation's example; and the strings of FmtStrings, most of which are
\* not numbers
PriceMaxInt == 6
PriceMaxFrac == 2

DigitStrings(n) == UNION {[1..k -> {"0", "1"}] : k \in 1..n}

PriceStrings ==
    {sign \o int \o frac :
        sign \in {<< >>, <<"-">>},
        int \in DigitStrings(PriceMaxInt),
        frac \in {<< >>} \cup {<<".">> \o d : d \in DigitStrings(PriceMaxFrac)}}

ExamplePrice == <<"1", "0", "3", "9", "4", "8", ".", "5">>

DecimalInputs == FmtStrings \cup PriceStrings \cup {ExamplePrice}

\* The instruments' size decimals tried: 6 - szDecimals is 6, 1, 0
SzDecimals == {0, 5, 6}

Precisions == {1, 5}

CallToFixedTruncate(value, decimals) ==
    /\ dFn = "none"
    /\ dFn' = "toFixedTruncate"
    /\ dValue' = value
    /\ dArg' = decimals
    /\ dResult' = toFixedTruncate(value, decimals)
    /\ UNCHANGED notDecVars

CallToPrecisionTruncate(value, precision) ==
    /\ dFn = "none"
    /\ dFn' = "toPrecisionTruncate"
    /\ dValue' = value
    /\ dArg' = precision
    /\ dResult' = toPrecisionTruncate(value, precision)
    /\ UNCHANGED notDecVars

CallFormatPrice(price, szDecimals) ==
    /\ dFn = "none"
    /\ dFn' = "formatPrice"
    /\ dValue' = price
    /\ dArg' = szDecimals
    /\ dResult' = formatPrice(price, szDecimals)
    /\ UNCHANGED notDecVars

InitDec ==
    /\ dFn = "none"
    /\ dValue = << >>
    /\ dArg = 0
    /\ dResult = << >>

NextDec ==
    \/ \E value \in DecimalInputs, decimals \in 0..FmtMaxDecimals :
          CallToFixedTruncate(value, decimals)
    \/ \E value \in DecimalInputs, precision \in Precisions :
          CallToPrecisionTruncate(value, precision)
    \/ \E price \in DecimalInputs, szDecimals \in SzDecimals :
          CallFormatPrice(price, szDecimals)

-----------------------------------------------------------------------------
(* hooks/useAggregatedPortfolio: the per-DEX loading flags.                  *)

\* Object.keys(providers), in the order of the registry
registryProviderIds == <<"hyperliquid", "lighter", "pacifica">>

\* The ids loadingStates has a flag for
LoadingIds == {"hyperliquid", "lighter", "pacifica", "dydx"}

\* The options the hook can be rendered with
LoadOptionSets ==
    [evm : SUBSET EvmWallets,
     solana : SUBSET SolanaWallets,
     exclude : SUBSET {"hyperliquid", "lighter", "pacifica"},
     enabled : BOOLEAN,
     enableHyperliquidWebSocket : BOOLEAN]

\* useHyperliquidWs = enableHyperliquidWebSocket && evm.length > 0
useHyperliquidWs(o) == o.enableHyperliquidWebSocket /\ o.evm # {}

\* activeProviders, as the ordered list the hook builds: the registry's ids
\* without the excluded ones, aster and those whose chain has no wallet
KeepsProvider(id, o) ==
    /\ id \notin o.exclude
    /\ id # "aster"
    /\ IF ChainOf(id) = "evm" THEN o.evm # {} ELSE o.solana # {}

activeProviderList(o) ==
    SelectSeq(registryProviderIds, LAMBDA id : KeepsProvider(id, o))

\* positionProviders: activeProviders without hyperliquid when its positions
\* come from the WebSocket
positionProviders(o) ==
    IF useHyperliquidWs(o)
    THEN SelectSeq(activeProviderList(o), LAMBDA id : id # "hyperliquid")
    ELSE activeProviderList(o)

\* Array.prototype.includes and indexOf (0-based, -1 when absent)
includes(list, x) == \E i \in DOMAIN list : list[i] = x

indexOf(list, x) ==
    IF includes(list, x)
    THEN (CHOOSE i \in DOMAIN list :
             list[i] = x /\ \A j \in 1..(i - 1) : list[j] # x) - 1
    ELSE -1

\* queries[idx]?.isLoading, with idx counted from 0: undefined, so falsy,
\* when there is no such query
IsLoadingAt(queries, idx) ==
    (idx + 1) \in DOMAIN queries /\ queries[idx + 1].isLoading

\* The enabled option of the account query at index idx
AccountQueryEnabled(idx, o) ==
    LET active == activeProviderList(o)
    IN  CASE idx = 0 -> o.enabled /\ includes(active, "hyperliquid") /\ ~useHyperliquidWs(o)
          [] idx = 1 -> o.enabled /\ includes(active, "lighter")
          [] idx = 2 -> o.enabled /\ includes(active, "pacifica")
          [] idx = 3 -> o.enabled /\ includes(active, "dydx")
          [] idx = 4 -> o.enabled /\ includes(active, "hyperliquid") /\ useHyperliquidWs(o)

\* The account queries that fetch for a provider
AccountIndexesOf(id) ==
    CASE id = "hyperliquid" -> {0, 4}
      [] id = "lighter" -> {1}
      [] id = "pacifica" -> {2}
      [] id = "dydx" -> {3}

\* The first render and its effects: one position query per position
\* provider, the five account queries, and the WebSocket hook; an enabled
\* query starts loading, a disabled one stays idle
MountLoading(o) ==
    /\ ~ldMounted
    /\ ldMounted' = TRUE
    /\ ldOptions' = o
    /\ positionQueries' =
          [i \in 1..Len(positionProviders(o)) |->
              [providerId |-> positionProviders(o)[i], isLoading |-> o.enabled]]
    /\ accountQueries' =
          [i \in 1..5 |-> [isLoading |-> AccountQueryEnabled(i - 1, o)]]
    /\ hyperliquidWsLoading' = (o.enabled /\ useHyperliquidWs(o))
    /\ UNCHANGED notLoadVars

\* A position query gets its first result
PositionQueryLoaded(i) ==
    /\ ldMounted
    /\ i \in DOMAIN positionQueries
    /\ positionQueries[i].isLoading
    /\ positionQueries' = [positionQueries EXCEPT ![i].isLoading = FALSE]
    /\ UNCHANGED <<ldMounted, ldOptions, accountQueries, hyperliquidWsLoading>>
    /\ UNCHANGED notLoadVars

\* An account query gets its first result
AccountQueryLoaded(i) ==
    /\ ldMounted
    /\ i \in DOMAIN accountQueries
    /\ accountQueries[i].isLoading
    /\ accountQueries' = [accountQueries EXCEPT ![i].isLoading = FALSE]
    /\ UNCHANGED <<ldMounted, ldOptions, positionQueries, hyperliquidWsLoading>>
    /\ UNCHANGED notLoadVars

\* The WebSocket hook gets its first message or an error: setIsLoading(false)
HyperliquidWsLoaded ==
    /\ ldMounted
    /\ hyperliquidWsLoading
    /\ hyperliquidWsLoading' = FALSE
    /\ UNCHANGED <<ldMounted, ldOptions, positionQueries, accountQueries>>
    /\ UNCHANGED notLoadVars

\* loadingStates: the position query of a provider is looked up by the
\* provider's index in activeProviders
loadingStates ==
    LET active == activeProviderList(ldOptions)
        ws == useHyperliquidWs(ldOptions)
        hlPositionIdx == indexOf(active, "hyperliquid")
        lighterPositionIdx == indexOf(active, "lighter")
        pacificaPositionIdx == indexOf(active, "pacifica")
        dydxPositionIdx == indexOf(active, "dydx")
    IN  [hyperliquid |->
            \/ ws /\ (hyperliquidWsLoading \/ IsLoadingAt(accountQueries, 4))
            \/ includes(active, "hyperliquid") /\ ~ws /\ IsLoadingAt(accountQueries, 0)
            \/ hlPositionIdx >= 0 /\ IsLoadingAt(positionQueries, hlPositionIdx),
         lighter |->
            \/ includes(active, "lighter") /\ IsLoadingAt(accountQueries, 1)
            \/ lighterPositionIdx >= 0 /\ IsLoadingAt(positionQueries, lighterPositionIdx),
         pacifica |->
            \/ includes(active, "pacifica") /\ IsLoadingAt(accountQueries, 2)
            \/ pacificaPositionIdx >= 0 /\ IsLoadingAt(positionQueries, pacificaPositionIdx),
         dydx |->
            \/ includes(active, "dydx") /\ IsLoadingAt(accountQueries, 3)
            \/ dydxPositionIdx >= 0 /\ IsLoadingAt(positionQueries, dydxPositionIdx)]

InitLoad ==
    /\ ldMounted = FALSE
    /\ ldOptions = [evm |-> {}, solana |-> {}, exclude |-> {}, enabled |-> FALSE,
                    enableHyperliquidWebSocket |-> FALSE]
    /\ positionQueries = << >>
    /\ accountQueries = [i \in 1..5 |-> [isLoading |-> FALSE]]
    /\ hyperliquidWsLoading = FALSE

NextLoad ==
    \/ \E o \in LoadOptionSets : MountLoading(o)
    \/ \E i \in 1..Len(registryProviderIds) : PositionQueryLoaded(i)
    \/ \E i \in 1..5 : AccountQueryLoaded(i)
    \/ HyperliquidWsLoaded

Init ==
    /\ InitCache /\ InitProv /\ InitAgg /\ InitNorm /\ InitFolio /\ InitWs /\ InitFmt
    /\ InitDec /\ InitLoad

SpecCache == Init /\ [][NextCache]_vars

SpecProv == Init /\ [][NextProv]_vars

SpecAgg == Init /\ [][NextAgg]_vars

SpecNorm == Init /\ [][NextNorm]_vars

SpecFolio == Init /\ [][NextFolio]_vars

SpecWs == Init /\ [][NextWs]_vars

SpecFmt == Init /\ [][NextFmt]_vars

SpecDec == Init /\ [][NextDec]_vars

SpecLoad == Init /\ [][NextLoad]_vars

-----------------------------------------------------------------------------
(* Properties of the cache *)

\* C6: a getCached call on a key whose entry exists and has not expired
\* returns the cached data and does not invoke fetcher (nothing is fetched,
\* nothing is stored).
C6_HitReturnsCached ==
    [][\A key \in Keys :
         ( /\ nCalls' = nCalls + 1
           /\ lastOp'.key = key
           /\ key \in DOMAIN cache
           /\ cache[key].expiresAt > now )
         => /\ lastOp'.op = "hit"
            /\ lastOp'.value = cache[key].data
            /\ nFetches' = nFetches
            /\ fetches' = fetches
            /\ pending' = pending
            /\ cache' = cache]_vars

\* A second call was served from the entry the first call stored
C6_Witness == lastOp.op = "hit" /\ lastOp.call = 2 /\ lastOp.value = 1

\* C7: a getCached call on a key with no entry, or with an expired entry,
\* invokes fetcher once; when the fetcher resolves, the value is stored under
\* the key as a whole new entry {data, expiresAt = call time + ttl}, later than
\* the call time, every other key is left alone, and the value is returned.
C7_MissFetchesAndStores ==
    [][ /\ \A key \in Keys :
             ( /\ nCalls' = nCalls + 1
               /\ lastOp'.key = key
               /\ ~(key \in DOMAIN cache /\ cache[key].expiresAt > now) )
             => /\ lastOp'.op = "miss"
                /\ nFetches' = nFetches + 1
                /\ fetches' \ fetches = {[fid |-> nFetches', key |-> key]}
                /\ \E c \in pending' \ pending :
                      c.key = key /\ c.fid = nFetches' /\ c.now = now
        /\ \A c \in pending :
             (lastOp'.op = "stored" /\ lastOp'.call = c.call /\ c \notin pending')
             => /\ c.key \in DOMAIN cache'
                /\ cache'[c.key] = [data |-> c.fid, expiresAt |-> c.now + TtlOf(c.key)]
                /\ cache'[c.key].expiresAt > c.now
                /\ lastOp'.value = c.fid
                /\ \A k \in (DOMAIN cache) \ {c.key} :
                      k \in DOMAIN cache' /\ cache'[k] = cache[k]
                /\ DOMAIN cache' = (DOMAIN cache) \cup {c.key} ]_vars

\* The second call found the first call's entry expired, fetched again and
\* replaced the entry
C7_Witness ==
    /\ lastOp.op = "stored" /\ lastOp.call = 2 /\ lastOp.had
    /\ nFetches = 2 /\ pending = {}
    /\ cache[lastOp.key].data = 2

\* C8 (as claimed): at most one fetch per key is in flight at any time.
C8_SingleFlight ==
    \A key \in Keys : Cardinality({f \in fetches : f.key = key}) <= 1

\* C8 (amended): there is no single-flight. Every caller that misses has its
\* own fetch in flight: per key, the fetches in flight are as many as the
\* callers awaiting the key, and no two callers await the same fetch.
C8_OneFetchPerMissingCaller ==
    /\ \A key \in Keys :
          Cardinality({f \in fetches : f.key = key})
            = Cardinality({c \in pending : c.key = key})
    /\ \A c, d \in pending : c.fid = d.fid => c = d
    /\ \A c \in pending : [fid |-> c.fid, key |-> c.key] \in fetches

\* Two callers missed on the same key and two fetches for it are in flight
C8_Witness ==
    \E key \in Keys : Cardinality({f \in fetches : f.key = key}) = 2

\* C9: every key a source writes starts with the prefix that source clears
\* by and with no other source's; clearCacheByPrefix with a source's prefix
\* removes exactly that source's entries and leaves all others as they were.
C9_PrefixClearIsolated ==
    [][\A src \in Sources :
         (lastOp'.op = "clearCacheByPrefix" /\ lastOp'.key = ClearPrefixOf(src))
         => /\ \A k \in KeysWrittenBy(src) :
                  SubSeq(k, 1, Len(ClearPrefixOf(src))) = ClearPrefixOf(src)
            /\ DOMAIN cache' = (DOMAIN cache) \ KeysWrittenBy(src)
            /\ \A k \in DOMAIN cache' : cache'[k] = cache[k]]_vars

\* A prefix clear removed one source's entry while another source's stayed
C9_Witness ==
    /\ lastOp.op = "clearCacheByPrefix" /\ lastOp.had
    /\ DOMAIN cache # {}

C26_NoRepopulationAfterClear ==
    \A key \in DOMAIN cache : cache[key].data \notin cOutdated

-----------------------------------------------------------------------------
(* Properties of the providers' fetchPositions *)

TransportFailures == {"networkError", "serverError", "unauthorized"}

\* C3: a position fetch that met a transport failure (a network error, or a
\* non-OK answer that is not a not-found) has rejected when it ends; the
\* failure is not reported as an empty position list.
C3_TransportFailureRejects ==
    (tPc = "done" /\ tHttp \in TransportFailures) => tResult = "rejected"

\* The raw positions that survive the zero/non-finite size filter
Survivors(raw) == LET NonZero(x) == ~isZeroPosition(x) IN SelectSeq(raw, NonZero)

\* C4: a task looks up metadata (decimals, mark prices, margin fractions,
\* leverage settings, max leverage) only after the positions have been
\* fetched and at least one survives the zero/non-finite size filter.
C4_NoMetadataForEmptyAccount ==
    (tLookups \ {"dexList"} # {}) => (tHttp # "none" /\ Survivors(tRaw) # << >>)

\* C5: no size string handed to a normalizer is zero or non-finite.
C5_NoZeroSizeNormalized ==
    \A i \in 1..Len(tNormalized) : ~isZeroPosition(tNormalized[i])

-----------------------------------------------------------------------------
(* Properties of the hook *)

\* Every query has settled and no wallet's fetch is still running
Quiet ==
    /\ aMounted
    /\ \A id \in DOMAIN aQueries :
          /\ ~aQueries[id].fetching
          /\ \A w \in DOMAIN aQueries[id].tasks : aQueries[id].tasks[w] # "running"

\* C1: the failure of one (source, account) fetch does not keep the others
\* out of the result: once all fetches have settled, the positions of every
\* (source, account) pair whose fetch succeeded are in the hook's positions.
C1_FailureIsolation ==
    Quiet =>
        \A id \in DOMAIN aQueries : \A w \in DOMAIN aQueries[id].tasks :
            aQueries[id].tasks[w] = "ok" => PositionsAt(id, w) \subseteq positions

\* C2: once all fetches have settled, the hook's errors hold exactly one
\* record per failed (source, account) fetch, tagged with its source, and
\* none for a source whose fetches all succeeded.
C2_OneErrorPerFailedTask ==
    Quiet =>
        \A id \in DOMAIN aQueries :
            Cardinality({e \in errors : e.provider = id})
                = Cardinality({w \in DOMAIN aQueries[id].tasks :
                                  aQueries[id].tasks[w] \in FailedStates})

\* C10: a credential-based source that was asked for, and whose credentials
\* are absent or were rejected by the venue, has an error record once all
\* fetches have settled: it is never just missing from the result.
C10_CredentialErrorsSurfaced ==
    Quiet =>
        \A id \in aOptions.providers :
            (/\ RequiresCredentials(id)
             /\ \/ ~(id = "aster" /\ aOptions.asterCredentials)
                \/ /\ id \in DOMAIN aQueries
                   /\ \E w \in DOMAIN aQueries[id].tasks :
                         aQueries[id].tasks[w] = "unauthorized")
            => \E e \in errors : e.provider = id

\* C24: when the venue answers not-found for an account or its positions,
\* the task completes successfully with an empty position list (and so
\* leaves no error).
C24_NotFoundIsEmptySuccess ==
    (tPc = "done" /\ tHttp = "notFound") =>
        (tResult = "resolved" /\ tNormalized = << >>)

-----------------------------------------------------------------------------
(* Properties of the normalized positions *)

\* C11: every produced position has a liquidationPrice that is null or
\* parses to a strictly positive number; never 0, negative or unparsable.
C11_LiquidationPriceNullOrPositive ==
    \A i \in 1..Len(nOut) :
        \/ nOut[i].liquidationPrice = NULL
        \/ JsGt(FieldValue(nOut[i].liquidationPrice), ZERO)

\* C12: every produced position, from every provider, has a size that
\* parses to a value >= 0.
C12_SizeIsAbsolute ==
    \A i \in 1..Len(nOut) :
        LET v == FieldValue(nOut[i].size) IN JsGt(v, ZERO) \/ JsEq(v, ZERO)

\* C13: no two distinct positions produced by one fetch have the same id,
\* also when they are held in different sub-accounts of the same wallet.
C13_IdsUnique ==
    \A i, j \in 1..Len(nOut) : i # j => nOut[i].id # nOut[j].id

\* C17: the margin of a position is the venue-reported margin when the
\* position is isolated and that margin is greater than 0; otherwise it is
\* notional / leverage, or 0 when leverage is less than or equal to 0.
C17_MarginUsed ==
    \A i \in 1..Len(nOut) :
        nProv \in {"pacifica", "aster"} =>
            LET raw == nEnriched[i]
                apiMargin == parseFloat(raw.margin)
                leverage == parseFloat(raw.leverage)
                price == IF Truthy(raw.mark) THEN parseFloat(raw.mark.s)
                         ELSE parseFloat(raw.entry)
                notional == IF nProv = "aster" THEN JsAbs(parseFloat(raw.notional))
                            ELSE JsMul(JsAbs(parseFloat(raw.size)), price)
            IN  FieldValue(nOut[i].margin) =
                    IF raw.isolated /\ JsGt(apiMargin, ZERO) THEN apiMargin
                    ELSE IF JsLe(leverage, ZERO) THEN ZERO
                    ELSE JsDiv(notional, leverage)

\* C18: the roi of a position is (pnl / margin) x 100 when the margin it is
\* computed from is not 0, and null when that margin is 0.
C18_RoiNullOnZeroMargin ==
    \A i \in 1..Len(nOut) :
        nProv \in {"aster", "extended", "dydx"} =>
            LET raw == nEnriched[i]
                pnl == parseFloat(raw.pnl)
                margin == IF nProv = "dydx" THEN dydxPositionMargin(raw)
                          ELSE FieldValue(nOut[i].margin)
            IN  IF JsEq(margin, ZERO) THEN nOut[i].roi = NULL
                ELSE /\ nOut[i].roi # NULL
                     /\ FieldValue(nOut[i].roi) = JsMul(JsDiv(pnl, margin), HUNDRED)

\* C19: with available equity A = E - M_other, the cross-margin liquidation
\* price is null when A <= 0; otherwise, wherever the quotient is defined, it
\* is (entry x |size| - A) / (|size| x (1 - mmf)) for a long and
\* (A + entry x |size|) / (|size| x (1 + mmf)) for a short, and a
\* non-positive result is replaced by null.
C19_CrossMarginLiquidationPrice ==
    \A i \in 1..Len(nOut) :
        nProv = "dydx" =>
            LET raw == nEnriched[i]
                A == JsSub(raw._accountEquity, raw._otherPositionsMaintenanceMargin)
                size == JsAbs(parseFloat(raw.size))
                entry == parseFloat(raw.entry)
                mmf == raw._maintenanceMarginFraction
                denominator == IF raw.side = "LONG" THEN JsMul(size, JsSub(ONE, mmf))
                               ELSE JsMul(size, JsAdd(ONE, mmf))
                price == IF raw.side = "LONG"
                         THEN JsDiv(JsSub(JsMul(entry, size), A), denominator)
                         ELSE JsDiv(JsAdd(A, JsMul(entry, size)), denominator)
            IN  IF JsLe(A, ZERO) THEN nOut[i].liquidationPrice = NULL
                ELSE JsEq(denominator, ZERO)
                     \/ IF JsLe(price, ZERO) THEN nOut[i].liquidationPrice = NULL
                        ELSE nOut[i].liquidationPrice = Rendered(price)

\* A dydx fetch of an account with equity 4 and one long of 2 at 10, whose
\* price is (20 - 4) / (2 x 0.9)
C19_Witness ==
    /\ nProv = "dydx"
    /\ Len(nOut) = 1
    /\ nEnriched[1].side = "LONG"
    /\ nOut[1].liquidationPrice = Rendered(Num(80, 9))

-----------------------------------------------------------------------------
(* Properties of the portfolio snapshot *)

\* Every query of the hook has settled
FolioSettled ==
    /\ pfMounted
    /\ hasData
    /\ \A id \in DOMAIN pfAccount : pfAccount[id].settled /\ pfPositions[id].settled

\* Which case a provider is in: not fetched at all, a fetch of it failed,
\* fetched with nothing to report, or fetched with data
SourceCase(id) ==
    IF id \notin DOMAIN pfAccount THEN "notRequested"
    ELSE IF pfAccount[id].failed \/ pfPositions[id].failed THEN "errored"
    ELSE IF JsEq(pfAccount[id].data.accountBalance, ZERO) /\ pfPositions[id].data = << >>
      THEN "noData"
    ELSE "hasData"

\* How the provider shows in data.perDex: no key, null, or a value
Representation(id) ==
    IF id \in DOMAIN data.perDex THEN data.perDex[id]
    ELSE [t |-> "absent", accountBalance |-> ZERO, sizeUsd |-> ZERO]

\* C14: in the per-provider breakdown, a provider that was not requested,
\* one without data, one whose fetch failed and one with data are all
\* represented differently: equal representations mean the same case.
C14_BreakdownTellsCasesApart ==
    FolioSettled =>
        \A a, b \in FolioProviders :
            Representation(a) = Representation(b) => SourceCase(a) = SourceCase(b)

\* C16: composite leverage times total balance is the total notional when
\* the total balance is greater than 0, and composite leverage is 0 when
\* the total balance is less than or equal to 0.
C16_CompositeLeverage ==
    (pfMounted /\ hasData) =>
        IF JsGt(data.totalAccountBalance, ZERO)
        THEN JsMul(data.compositeLeverage, data.totalAccountBalance) = data.totalSizeUsd
        ELSE data.compositeLeverage = ZERO

\* A snapshot with balance 2 and notional 9: leverage 9/2
C16_Witness ==
    /\ pfMounted /\ hasData
    /\ data.totalAccountBalance = Num(2, 1)
    /\ data.totalSizeUsd = Num(9, 1)
    /\ data.compositeLeverage = Num(9, 2)

\* C15: once the caller has abandoned a request (the component unmounted, or
\* a later connect() superseded it), nothing that arrives for that request
\* afterwards updates the hook's state.
C15_NoLateConsumption == ~wStale

-----------------------------------------------------------------------------
(* Properties of the WebSocket hooks *)

\* The sockets that were created and have not been destroyed
LiveSockets == {id \in DOMAIN wSockets : ~wSockets[id].destroyed}

\* C27: a mounted hook instance has at most one socket that has been
\* created and not destroyed, under every interleaving of connect, reconnect,
\* wallet-list changes and the completions of connect's awaits.
C27_AtMostOneLiveSocket == wMounted => Cardinality(LiveSockets) <= 1

\* C28: once the hook is unmounted, every socket it created is destroyed and
\* none is created afterwards, also when connect was still awaiting the
\* metadata or the import at the unmount.
C28_NoSocketAfterUnmount == (~wMounted /\ wGen > 0) => LiveSockets = {}

\* C29: the positions the hook returns belong to wallets of the current
\* wallet list only, also after the list changed or reconnect was called.
C29_OnlyCurrentWallets == wMounted => walletData \subseteq wWallets

-----------------------------------------------------------------------------
(* Properties of the formatting *)

\* A decimal string: an optional "-", digits, and optionally "." and digits
ValidDecimal(s) ==
    LET sign == IF Len(s) >= 1 /\ s[1] = "-" THEN 1 ELSE 0
        int == DigitRun(s, sign + 1)
        dot == sign + int + 1
    IN  /\ int >= 1
        /\ \/ sign + int = Len(s)
           \/ /\ dot < Len(s)
              /\ s[dot] = "."
              /\ DigitRun(s, dot + 1) = Len(s) - dot

\* C20: truncating an already truncated decimal string again, to the same
\* number of decimals n >= 0, returns the same string.
C20_TruncateIdempotent ==
    ValidDecimal(fValue) => \A i \in 1..Len(fResults) : fResults[i] = fResults[1]

\* "0.011" was truncated to two decimals, and the result "0.01" was
\* truncated again
C20_Witness ==
    /\ fValue = <<"0", ".", "0", "1", "1">>
    /\ fDecimals = 2
    /\ fResults = << <<"0", ".", "0", "1">>, <<"0", ".", "0", "1">> >>

\* The number of digits of s after its "."
DecimalPlaces(s) == IF IndexOfDot(s, 1) = 0 THEN 0 ELSE Len(s) - IndexOfDot(s, 1)

\* C21: formatPrice returns an integer-valued price unchanged; for any other
\* price it returns, of the truncation to max(6 - szDecimals, 0) decimals
\* and the truncation to 5 significant figures, the one with fewer decimals.
C21_FormatPriceRule ==
    (dFn = "formatPrice" /\ ValidDecimal(dValue)) =>
        LET maxDecimals == IF 6 - dArg > 0 THEN 6 - dArg ELSE 0
            byDecimals == toFixedTruncate(dValue, maxDecimals)
            byFigures == toPrecisionTruncate(dValue, 5)
        IN  IF parseFloat(dValue).d = 1
            THEN parseFloat(dResult) = parseFloat(dValue)
            ELSE \/ /\ DecimalPlaces(byDecimals) <= DecimalPlaces(byFigures)
                    /\ dResult = byDecimals
                 \/ /\ DecimalPlaces(byFigures) <= DecimalPlaces(byDecimals)
                    /\ dResult = byFigures

\* C22: formatPrice("103948.5", 5) returns "103948".
C22_FormatPriceExample ==
    (dFn = "formatPrice" /\ dValue = ExamplePrice /\ dArg = 5) =>
        dResult = <<"1", "0", "3", "9", "4", "8">>

\* A string that Number() does not read as a number, or the empty string
Malformed(s) == s = << >> \/ NumberOf(s).k = "nan"

\* C23: given a malformed numeric string, toFixedTruncate,
\* toPrecisionTruncate and formatPrice return "0" and do not throw.
C23_MalformedGivesZero ==
    (dFn # "none" /\ Malformed(dValue)) => dResult = <<"0">>

\* What a provider's own sources are loading: its position query, its account
\* queries and, for hyperliquid on the WebSocket, the WebSocket hook
OwnPositionLoading(id) ==
    \E i \in DOMAIN positionQueries :
        positionQueries[i].providerId = id /\ positionQueries[i].isLoading

OwnAccountLoading(id) ==
    \E idx \in AccountIndexesOf(id) : IsLoadingAt(accountQueries, idx)

OwnWsLoading(id) ==
    id = "hyperliquid" /\ useHyperliquidWs(ldOptions) /\ hyperliquidWsLoading

\* C30: the per-DEX loading flag of a provider is true exactly when that
\* provider's own position query or account query (or, for hyperliquid on
\* the WebSocket, its WebSocket data) is loading, never because of another
\* provider's query, also when hyperliquid is left out of the REST position
\* queries.
C30_OwnLoadingOnly ==
    ldMounted =>
        \A id \in LoadingIds :
            loadingStates[id] <=>
                (OwnPositionLoading(id) \/ OwnAccountLoading(id) \/ OwnWsLoading(id))

=============================================================================
